---- MODULE Spec2Model ----
(***************************************************************************)
(* A model of the blocking PostgreSQL session machine of src/src/lib.rs:   *)
(* InnerPostgresConnection, PostgresConnection, PostgresTransaction,       *)
(* PostgresStatement and their exchanges with a backend.                   *)
(*                                                                         *)
(* The client is one sequential process.  pc is its position, kont the     *)
(* stack of callers waiting for the current function to return, res the    *)
(* last returned result.  The backend is the environment: it consumes the  *)
(* frames the client flushes, in order, and queues its answers in toClient.*)
(***************************************************************************)
EXTENDS Integers, Sequences, FiniteSets, TLC

VARIABLES
    pc,               \* position of the client in the current handler
    kont,             \* callers of the current function (continuation frames)
    res,              \* result of the last function that returned
    op,               \* the public operation in progress / last finished
    written,          \* frames handed to the transport by the current operation
    cur,              \* locals of the current handler
    desynchronized,   \* InnerPostgresConnection.desynchronized
    finished,         \* InnerPostgresConnection.finished
    trans_depth,      \* InnerPostgresConnection.trans_depth
    next_stmt_id,     \* InnerPostgresConnection.next_stmt_id
    notifications,    \* InnerPostgresConnection.notifications
    unknown_types,    \* InnerPostgresConnection.unknown_types (cached oids)
    trans,            \* live PostgresTransaction handles, outermost first
    stmts,            \* live PostgresStatement handles
    copies,           \* live PostgresCopyInStatement handles
    rows,             \* live PostgresRows / PostgresLazyRows handles
    bmode,            \* backend protocol state
    toClient,         \* backend messages not yet read by the client
    asyncLeft,        \* notices / notifications the backend may still push
    rogueLeft,        \* out-of-protocol messages the backend may still send
    cap,              \* the bounds of the exploration
    cancel,           \* the side channel of cancel_query: its position, its
                      \* arguments, the traffic on its own transport, its result
    debug_assertions  \* whether debug_assert! is compiled in: "unknown" until
                      \* an assertion that fails is reached, then "off" (or a panic)

vars == <<pc, kont, res, op, written, cur, desynchronized, finished,
          trans_depth, next_stmt_id, notifications, unknown_types, trans,
          stmts, copies, rows, bmode, toClient, asyncLeft, rogueLeft, cap, cancel,
          debug_assertions>>

ctlVars  == <<pc, kont, res>>
sessVars == <<desynchronized, finished, trans_depth, next_stmt_id,
              notifications, unknown_types>>
hndVars  == <<trans, stmts, copies, rows>>
netVars  == <<bmode, toClient>>
envVars  == <<asyncLeft, rogueLeft, cap, cancel, debug_assertions>>

----------------------------------------------------------------------------
(* Bounds *)

MaxUnread    == 1   \* unread answers left behind with which a run goes on
MaxDepth     == 1   \* Spec: deepest transaction nesting explored
MaxStmtId    == 2   \* Spec: statement names explored, s0 .. s(MaxStmtId-1)
TxnMaxDepth  == 3   \* SpecTxn: deepest transaction nesting explored
TxnMaxStmtId == 1   \* SpecTxn: statement names explored
MaxAsync     == 2   \* SpecAsync: asynchronous backend messages per run
AsyncMaxDepth  == 1 \* SpecAsync: deepest transaction nesting explored
AsyncMaxStmtId == 1 \* SpecAsync: statement names explored
MaxRogue     == 1   \* SpecRogue: out-of-protocol backend messages per run
RogueMaxDepth  == 1 \* SpecRogue: deepest transaction nesting explored
RogueMaxStmtId == 1 \* SpecRogue: statement names explored
RowsMaxDepth   == 1 \* SpecRows: deepest transaction nesting explored
RowsMaxStmtId  == 1 \* SpecRows: statement names explored
MaxPortalId    == 1 \* SpecRows: portals explored per statement
MaxRows        == 1 \* SpecRows: row streams alive at a time
ExecMaxStmtId  == 2 \* SpecExecute: consecutive execute calls explored
MaxIdx         == 2 \* SpecRows: largest ordinal column index passed to get_opt

----------------------------------------------------------------------------
(* Messages.  A frame is [k |-> kind, a |-> argument]; names and query     *)
(* texts are token sequences, so format!("s{}", 3) is <<"s", 3>>.          *)

Msg(k, a) == [k |-> k, a |-> a]

AsyncKinds == {"NoticeResponse", "NotificationResponse", "ParameterStatus"}

BackendKinds ==
    {"AuthenticationOk", "AuthenticationCleartextPassword",
     "AuthenticationMD5Password", "AuthenticationKerberosV5",
     "AuthenticationSCMCredential", "AuthenticationGSS", "AuthenticationSSPI",
     "BackendKeyData", "ErrorResponse", "ReadyForQuery", "ParseComplete",
     "BindComplete", "CloseComplete", "ParameterDescription",
     "RowDescription", "NoData", "DataRow", "CopyInResponse",
     "CommandComplete", "EmptyQueryResponse", "PortalSuspended"}

\* The type vectors a description can carry: no entry, one built-in type,
\* one type whose oid is not built in (PgUnknownType).
TypeVecs == {"none", "known", "unknown"}

----------------------------------------------------------------------------
(* The backend: PostgreSQL's side of protocol 3.0, as far as the session   *)
(* machine can observe it.  BStep(mode, m) is the set of ways the backend  *)
(* can answer frame m in protocol state mode.                              *)
(*   start     : waiting for the startup packet                            *)
(*   password  : waiting for the PasswordMessage                           *)
(*   sasl      : waiting for the SASLInitialResponse                       *)
(*   idle      : between messages                                          *)
(*   skip      : an extended-query message failed; discarding until Sync   *)
(*   copyin    : COPY FROM STDIN started by Execute                        *)
(*   copyinQ   : COPY FROM STDIN started by a simple Query                 *)
(*   closed    : the backend has exited, or the transport is lost          *)

B(k) == Msg(k, <<>>)

RFQ == B("ReadyForQuery")
ERR == B("ErrorResponse")

Out(mode, out) == [mode |-> mode, out |-> out]

StartupDone == <<B("AuthenticationOk"), B("BackendKeyData"), RFQ>>

IsTypeLookup(q) == Len(q) > 0 /\ q[1] = "SELECT typname FROM pg_type WHERE oid="

IsUserQuery(q) == Len(q) > 0 /\ q[1] = "user query"

BQuery(q) ==
    IF IsTypeLookup(q)
    THEN {Out("idle", <<B("DataRow"), B("CommandComplete"), RFQ>>),
          Out("idle", <<ERR, RFQ>>)}
    ELSE {Out("idle", <<B("CommandComplete"), RFQ>>),
          Out("idle", <<ERR, RFQ>>)}
         \cup (IF IsUserQuery(q)
               THEN {Out("idle", <<B("DataRow"), B("CommandComplete"), RFQ>>),
                     Out("idle", <<B("EmptyQueryResponse"), RFQ>>),
                     Out("copyinQ", <<B("CopyInResponse")>>)}
               ELSE {})

BDescribe ==
    {Out("idle", <<Msg("ParameterDescription", <<p>>), Msg("RowDescription", <<r>>)>>)
        : p \in TypeVecs, r \in TypeVecs \ {"none"}}
    \cup {Out("idle", <<Msg("ParameterDescription", <<p>>), B("NoData")>>)
        : p \in TypeVecs}
    \cup {Out("skip", <<ERR>>)}
    \cup {Out("skip", <<Msg("ParameterDescription", <<"none">>), ERR>>)}

\* The answers to Execute(portal, max_rows): the i-th DataRow of the batch
\* carries i; at most max_rows rows come per Execute (no limit when
\* max_rows <= 0), and a batch cut short by the limit ends in PortalSuspended.
\* A CommandComplete carries its tag as words: none here when the tag has no
\* count, "UPDATE 1" after a row was changed, "SELECT 1" after a row was
\* retrieved.
DataRow(i) == Msg("DataRow", <<i>>)

BExecute(max_rows) ==
    {Out("idle", <<B("CommandComplete")>>),
     Out("idle", <<Msg("CommandComplete", <<"UPDATE", 1>>)>>),
     Out("idle", <<DataRow(1), B("CommandComplete")>>),
     Out("idle", <<DataRow(1), Msg("CommandComplete", <<"SELECT", 1>>)>>),
     Out("idle", <<B("EmptyQueryResponse")>>),
     Out("skip", <<ERR>>),
     Out("skip", <<DataRow(1), ERR>>),
     Out("copyin", <<B("CopyInResponse")>>)}
    \cup (IF max_rows <= 0 \/ max_rows >= 2
          THEN {Out("idle", <<DataRow(1), DataRow(2), B("CommandComplete")>>)}
          ELSE {})
    \cup (IF max_rows > 0
          THEN {Out("idle", <<DataRow(1), B("PortalSuspended")>>)}
          ELSE {})
    \cup (IF max_rows >= 2
          THEN {Out("idle", <<DataRow(1), DataRow(2), B("PortalSuspended")>>)}
          ELSE {})

BIdle(m) ==
    CASE m.k = "Parse"     -> {Out("idle", <<B("ParseComplete")>>), Out("skip", <<ERR>>)}
      [] m.k = "Describe"  -> BDescribe
      [] m.k = "Bind"      -> {Out("idle", <<B("BindComplete")>>), Out("skip", <<ERR>>)}
      [] m.k = "Execute"   -> BExecute(m.a[2])
      [] m.k = "Close"     -> {Out("idle", <<B("CloseComplete")>>), Out("skip", <<ERR>>)}
      [] m.k = "Sync"      -> {Out("idle", <<RFQ>>)}
      [] m.k = "Query"     -> BQuery(m.a)
      [] m.k = "Terminate" -> {Out("closed", <<>>)}
      [] OTHER             -> {Out("idle", <<>>)}   \* stray CopyData/CopyDone/CopyFail

BSkip(m) ==
    CASE m.k = "Sync"      -> {Out("idle", <<RFQ>>)}
      [] m.k = "Terminate" -> {Out("closed", <<>>)}
      [] OTHER             -> {Out("skip", <<>>)}

BCopyIn(m) ==
    CASE m.k = "CopyData"  -> {Out("copyin", <<>>)}
      [] m.k = "CopyDone"  -> {Out("idle", <<B("CommandComplete")>>),
                               Out("idle", <<Msg("CommandComplete", <<2>>)>>),
                               Out("skip", <<ERR>>)}
      [] m.k = "CopyFail"  -> {Out("skip", <<ERR>>)}
      [] m.k = "Sync"      -> {Out("copyin", <<>>)}  \* ignored during copy-in
      [] m.k = "Terminate" -> {Out("closed", <<>>)}
      [] OTHER             -> {Out("skip", <<ERR>>)}

BCopyInQ(m) ==
    CASE m.k = "CopyData"  -> {Out("copyinQ", <<>>)}
      [] m.k = "CopyDone"  -> {Out("idle", <<B("CommandComplete"), RFQ>>),
                               Out("idle", <<ERR, RFQ>>)}
      [] m.k = "CopyFail"  -> {Out("idle", <<ERR, RFQ>>)}
      [] m.k = "Sync"      -> {Out("copyinQ", <<>>)} \* ignored during copy-in
      [] m.k = "Terminate" -> {Out("closed", <<>>)}
      [] OTHER             -> {Out("idle", <<ERR, RFQ>>)}

BStart(m) ==
    IF m.k = "Startup"
    THEN {Out("idle", StartupDone),
          Out("password", <<B("AuthenticationCleartextPassword")>>),
          Out("password", <<B("AuthenticationMD5Password")>>),
          Out("closed", <<B("AuthenticationKerberosV5")>>),
          Out("closed", <<B("AuthenticationSCMCredential")>>),
          Out("closed", <<B("AuthenticationGSS")>>),
          Out("closed", <<B("AuthenticationSSPI")>>),
          Out("sasl", <<B("AuthenticationSASL")>>),
          Out("closed", <<ERR>>)}
    ELSE {Out("closed", <<ERR>>)}

BSasl(m) ==
    IF m.k = "SASLInitialResponse"
    THEN {Out("sasl", <<B("AuthenticationSASLContinue")>>)}
    ELSE {Out("closed", <<ERR>>)}

BPassword(m) ==
    IF m.k = "PasswordMessage"
    THEN {Out("idle", StartupDone), Out("closed", <<ERR>>)}
    ELSE {Out("closed", <<ERR>>)}

BStep(mode, m) ==
    CASE mode = "start"    -> BStart(m)
      [] mode = "password" -> BPassword(m)
      [] mode = "sasl"     -> BSasl(m)
      [] mode = "idle"     -> BIdle(m)
      [] mode = "skip"     -> BSkip(m)
      [] mode = "copyin"   -> BCopyIn(m)
      [] mode = "copyinQ"  -> BCopyInQ(m)
      [] OTHER             -> {Out("closed", <<>>)}

\* All the ways the backend can answer the frames msgs, taken in order.
RECURSIVE BRun(_, _)
BRun(mode, msgs) ==
    IF msgs = <<>> THEN {Out(mode, <<>>)}
    ELSE UNION { { Out(t.mode, s.out \o t.out) : t \in BRun(s.mode, Tail(msgs)) }
                 : s \in BStep(mode, Head(msgs)) }

----------------------------------------------------------------------------
(* Control: calls, returns and error propagation.                          *)
(* A frame of kont says what the caller does with the callee's result:     *)
(*   try    : try!(f()); continue at then     (an error returns at once)   *)
(*   tryret : try!(f()); return val                                        *)
(*   always : continue at then whatever the result (let _ = f(), and_then  *)
(*            followed by a drop)                                          *)

Frame(t, then, val) == [t |-> t, then |-> then, val |-> val]

Try(then)    == Frame("try", then, "")
TryRet(val)  == Frame("tryret", "", val)
Always(then) == Frame("always", then, "")

\* Where control goes when the current function returns r with callers k.
RECURSIVE Unwind(_, _)
Unwind(r, k) ==
    IF k = <<>> THEN [pc |-> "return", kont |-> <<>>, res |-> r]
    ELSE LET f == Head(k) IN
         CASE f.t = "try" ->
                IF r = "Ok" THEN [pc |-> f.then, kont |-> Tail(k), res |-> r]
                ELSE Unwind(r, Tail(k))
           [] f.t = "tryret" ->
                Unwind(IF r = "Ok" THEN f.val ELSE r, Tail(k))
           [] OTHER -> [pc |-> f.then, kont |-> Tail(k), res |-> r]

Return(r) ==
    LET u == Unwind(r, kont) IN
    /\ pc' = u.pc
    /\ kont' = u.kont
    /\ res' = u.res

Goto(l) == pc' = l /\ UNCHANGED <<kont, res>>

Call(l, frame) == pc' = l /\ kont' = <<frame>> \o kont /\ UNCHANGED res

\* A failed debug_assert!: the thread panics and the session is gone.
Panic == pc' = "panicked" /\ UNCHANGED <<kont, res>>

\* debug_assert!(!self.desynchronized) at the top of write_messages and of
\* read_message_ stops the caller unless the build is known to have
\* debug assertions off.
AssertFails == desynchronized /\ debug_assertions # "off"

\* try_desync!(s, e): an I/O error marks the session desynchronized before
\* it is returned.
try_desync(ok) == IF ok THEN UNCHANGED desynchronized ELSE desynchronized' = TRUE

\* bad_response!(s): marks the session desynchronized, returns PgBadResponse.
bad_response == desynchronized' = TRUE /\ Return("BadResponse")

\* InnerPostgresConnection::write_messages.  fail = 0: every frame and the
\* flush succeed; fail = i: the write of frame i fails (Len + 1: the flush).
\* unread is what the client has not yet read of the backend's answers.
\* A transport that has failed once carries nothing more from the backend.
write_messages(messages, fail, unread) ==
    /\ try_desync(fail = 0)
    /\ IF fail = 0
       THEN /\ written' = written \o messages
            /\ \E o \in BRun(bmode, messages) :
                 /\ bmode' = o.mode
                 /\ toClient' = unread \o o.out
       ELSE /\ written' = written \o SubSeq(messages, 1, fail - 1)
            /\ toClient' = <<>>
            /\ bmode' = "closed"

\* try_pg!(conn.write_messages(messages)) followed by a jump to next.
WriteThen(messages, next) ==
    /\ ~AssertFails
    /\ \E fail \in 0..(Len(messages) + 1) :
         /\ write_messages(messages, fail, toClient)
         /\ IF fail = 0 THEN Goto(next) ELSE Return("Io")

\* The same after the message at the head of toClient has been read.
ReadWriteThen(messages, next) ==
    \E fail \in 0..(Len(messages) + 1) :
      /\ write_messages(messages, fail, Tail(toClient))
      /\ IF fail = 0 THEN Goto(next) ELSE Return("Io")

\* The positions at which the client is inside read_message_.
ReadLabels ==
    {"handle_auth", "handle_auth_ok", "connect_loop", "wait_for_ready",
     "quick_query_loop", "raw_prepare_parse", "raw_prepare_params",
     "raw_prepare_rows", "close_statement_loop", "inner_execute_bind",
     "execute_loop", "rows_finish_loop", "read_rows", "copy_execute_bind",
     "copy_execute_response", "copy_execute_complete"}

\* read_auth_message: an authentication request whose code is none of
\* 0, 2, 3, 5, 6, 7, 9 is an error of the read.
read_auth_message_fails(m) ==
    m.k \in {"AuthenticationSASL", "AuthenticationSASLContinue", "AuthenticationSASLFinal"}

\* read_message_ returns message Head(toClient) to the code at label l.
Reads(l) ==
    /\ pc = l
    /\ ~AssertFails
    /\ toClient # <<>>
    /\ Head(toClient).k \notin AsyncKinds
    /\ ~read_auth_message_fails(Head(toClient))

Consume == toClient' = Tail(toClient) /\ UNCHANGED bmode

\* A read_message_ that returns ParameterStatus to its caller, which no
\* step expects.
read_message_returns_status ==
    /\ pc \in ReadLabels
    /\ ~AssertFails
    /\ toClient # <<>>
    /\ Head(toClient).k \in AsyncKinds
    /\ Consume
    /\ notifications' = IF Head(toClient).k = "NotificationResponse"
                        THEN Append(notifications, Head(toClient).a)
                        ELSE notifications
    /\ IF Head(toClient).k = "ParameterStatus"
       THEN bad_response
       ELSE UNCHANGED <<ctlVars, desynchronized>>
    /\ UNCHANGED <<op, written, cur, finished, trans_depth, next_stmt_id,
                   unknown_types, hndVars, envVars>>

\* read_message_: a notice, a notification or a parameter status is
\* handled inside the loop and never returned.
read_message_absorb ==
    /\ pc \in ReadLabels
    /\ ~AssertFails
    /\ toClient # <<>>
    /\ Head(toClient).k \in AsyncKinds
    /\ Consume
    /\ notifications' = IF Head(toClient).k = "NotificationResponse"
                        THEN Append(notifications, Head(toClient).a)
                        ELSE notifications
    /\ UNCHANGED <<ctlVars, op, written, cur, desynchronized, finished,
                   trans_depth, next_stmt_id, unknown_types, hndVars, envVars>>

\* read_message_: the transport read fails.
read_message_fail ==
    /\ pc \in ReadLabels
    /\ ~AssertFails
    /\ try_desync(FALSE)
    /\ Return("Io")
    /\ toClient' = <<>>
    /\ bmode' = "closed"
    /\ UNCHANGED <<op, written, cur, finished, trans_depth, next_stmt_id,
                   notifications, unknown_types, hndVars, envVars>>

\* read_message_: the frame was read but read_message cannot decode it;
\* the error is an I/O error like any other.
read_message_undecoded ==
    /\ pc \in ReadLabels
    /\ ~AssertFails
    /\ toClient # <<>>
    /\ read_auth_message_fails(Head(toClient))
    /\ Consume
    /\ try_desync(FALSE)
    /\ Return("Io")
    /\ UNCHANGED <<op, written, cur, finished, trans_depth, next_stmt_id,
                   notifications, unknown_types, hndVars, envVars>>

\* The positions at which write_messages or read_message_ is entered
\* without a desynchronization check before it.
AssertLabels ==
    ReadLabels \cup {"raw_prepare", "close_statement", "rows_execute",
                     "copy_execute", "copy_execute_done"}

\* debug_assert!(!self.desynchronized) fails in a build with debug
\* assertions: the thread panics.
debug_assert_panic ==
    /\ pc \in AssertLabels
    /\ AssertFails
    /\ Panic
    /\ UNCHANGED <<op, written, cur, sessVars, hndVars, netVars, envVars>>

\* The same assertion in a build without debug assertions: nothing happens.
debug_assert_off ==
    /\ pc \in AssertLabels
    /\ AssertFails
    /\ debug_assertions' = "off"
    /\ UNCHANGED <<ctlVars, op, written, cur, sessVars, hndVars, netVars,
                   asyncLeft, rogueLeft, cap, cancel>>

\* InnerPostgresConnection::wait_for_ready
wait_for_ready ==
    /\ Reads("wait_for_ready")
    /\ Consume
    /\ IF Head(toClient).k = "ReadyForQuery"
       THEN Return("Ok") /\ UNCHANGED desynchronized
       ELSE bad_response
    /\ UNCHANGED <<op, written, cur, finished, trans_depth, next_stmt_id,
                   notifications, unknown_types, hndVars, envVars>>

----------------------------------------------------------------------------
(* Public operations start at pc = "idle"; StartOp records what the        *)
(* session looked like when the operation was called.                      *)

NoLocals == [q |-> <<>>, h |-> 0, commit |-> FALSE, depth |-> 0,
             name |-> <<>>, ptypes |-> "none", rdesc |-> "none",
             n |-> 0, saved |-> "", portal |-> <<>>, row_limit |-> 0,
             password |-> FALSE, data |-> <<>>, row |-> <<>>, more_rows |-> FALSE,
             lazy |-> 0, columns |-> 0, input |-> <<>>, idx |-> 0,
             notification |-> <<>>, pos |-> 0, buf |-> <<>>, num |-> 0,
             database |-> <<>>, options |-> <<>>, tag |-> <<>>,
             finished |-> FALSE]

\* A run is followed up to the end of the operation during which the
\* backend leaves the protocol for the last time, and as long as at most
\* MaxUnread answers of earlier operations are still unread when the next
\* operation starts.
StartOp(name, via) ==
    /\ pc = "idle"
    /\ cap.rogue > 0 => rogueLeft > 0
    /\ Len(toClient) <= MaxUnread
    /\ op' = [name |-> name, via |-> via, desync0 |-> desynchronized,
              depth0 |-> trans_depth, stmt0 |-> next_stmt_id,
              unread0 |-> Len(toClient)]
    /\ UNCHANGED written

\* The operation has returned res to the application, which goes on.
Returned ==
    /\ pc = "return"
    /\ pc' = "idle"
    /\ res' = ""
    /\ op' = [name |-> "", via |-> 0, desync0 |-> FALSE, depth0 |-> 0, stmt0 |-> 0,
              unread0 |-> 0]
    /\ written' = <<>>
    /\ cur' = NoLocals
    /\ UNCHANGED <<kont, sessVars, hndVars, netVars, envVars>>

Handles == 1..Len(trans)

\* What the borrow checker allows: a handle is consumed or dropped only
\* when nothing borrowed from it is alive.
Innermost(h) ==
    /\ h = Len(trans)
    /\ \A s \in stmts : s.owner # h
    /\ \A c \in copies : c.owner # h
    /\ \A r \in rows : r.lazy # h

\* check_desync!(conn)
check_desync == desynchronized

\* InnerPostgresConnection::quick_query: the desynchronization check and
\* the Query frame.
quick_query ==
    /\ pc = "quick_query"
    /\ IF check_desync
       THEN Return("Desync") /\ UNCHANGED <<written, desynchronized, netVars>>
       ELSE WriteThen(<<Msg("Query", cur.q)>>, "quick_query_loop")
    /\ UNCHANGED <<op, cur, finished, trans_depth, next_stmt_id, notifications,
                   unknown_types, hndVars, envVars>>

CopyFailSync == <<Msg("CopyFail", <<"COPY queries cannot be directly executed">>),
                  Msg("Sync", <<>>)>>

\* InnerPostgresConnection::quick_query: the loop over the answers.
quick_query_loop ==
    /\ Reads("quick_query_loop")
    /\ LET m == Head(toClient) IN
       CASE m.k = "ReadyForQuery" ->
              Consume /\ Return("Ok") /\ UNCHANGED <<written, desynchronized>>
         [] m.k = "CopyInResponse" ->
              ReadWriteThen(CopyFailSync, "quick_query_loop")
         [] m.k = "ErrorResponse" ->
              /\ Consume
              /\ Call("wait_for_ready", TryRet("Db"))
              /\ UNCHANGED <<written, desynchronized>>
         [] OTHER ->
              Consume /\ Goto("quick_query_loop") /\ UNCHANGED <<written, desynchronized>>
    /\ UNCHANGED <<op, cur, finished, trans_depth, next_stmt_id, notifications,
                   unknown_types, hndVars, envVars>>

\* PostgresConnection::batch_execute
PostgresConnection_batch_execute ==
    /\ StartOp("batch_execute", 0)
    /\ ~finished
    /\ IF trans_depth # 0
       THEN Return("WrongTransaction") /\ cur' = NoLocals
       ELSE /\ cur' = [NoLocals EXCEPT !.q = <<"user query">>]
            /\ Goto("quick_query")
    /\ UNCHANGED <<sessVars, hndVars, netVars, envVars>>

\* PostgresTransaction::batch_execute without the depth test.
PostgresTransaction_batch_execute_any_depth(h) ==
    /\ StartOp("batch_execute", h)
    /\ cur' = [NoLocals EXCEPT !.q = <<"user query">>]
    /\ Goto("quick_query")
    /\ UNCHANGED <<sessVars, hndVars, netVars, envVars>>

\* PostgresTransaction::batch_execute
PostgresTransaction_batch_execute(h) ==
    /\ StartOp("batch_execute", h)
    /\ IF trans_depth # trans[h].depth
       THEN Return("WrongTransaction") /\ cur' = NoLocals
       ELSE /\ cur' = [NoLocals EXCEPT !.q = <<"user query">>]
            /\ Goto("quick_query")
    /\ UNCHANGED <<sessVars, hndVars, netVars, envVars>>

\* PostgresConnection::transaction, up to the BEGIN.
PostgresConnection_transaction ==
    /\ StartOp("transaction", 0)
    /\ ~finished
    /\ IF check_desync
       THEN Return("Desync") /\ cur' = NoLocals
       ELSE IF trans_depth # 0
       THEN Return("WrongTransaction") /\ cur' = NoLocals
       ELSE /\ trans_depth < cap.depth
            /\ cur' = [NoLocals EXCEPT !.q = <<"BEGIN">>, !.depth = 1]
            /\ Call("quick_query", Try("transaction_ok"))
    /\ UNCHANGED <<sessVars, hndVars, netVars, envVars>>

\* PostgresTransaction::transaction, up to the SAVEPOINT.
PostgresTransaction_transaction(h) ==
    /\ StartOp("transaction", h)
    /\ IF check_desync
       THEN Return("Desync") /\ cur' = NoLocals
       ELSE IF trans_depth # trans[h].depth
       THEN Return("WrongTransaction") /\ cur' = NoLocals
       ELSE /\ trans_depth < cap.depth
            /\ cur' = [NoLocals EXCEPT !.q = <<"SAVEPOINT", "sp">>,
                                       !.depth = trans[h].depth + 1]
            /\ Call("quick_query", Try("transaction_ok"))
    /\ UNCHANGED <<sessVars, hndVars, netVars, envVars>>

\* transaction, after the BEGIN / SAVEPOINT succeeded: the depth is
\* raised and the handle is built.
transaction_ok ==
    /\ pc = "transaction_ok"
    /\ trans_depth' = trans_depth + 1
    /\ trans' = Append(trans, [commit |-> FALSE, depth |-> cur.depth])
    /\ Return("Ok")
    /\ UNCHANGED <<op, written, cur, desynchronized, finished, next_stmt_id,
                   notifications, unknown_types, stmts, copies, rows, netVars, envVars>>

\* PostgresTransaction::set_commit
PostgresTransaction_set_commit(h) ==
    /\ StartOp("set_commit", h)
    /\ trans' = [trans EXCEPT ![h].commit = TRUE]
    /\ cur' = NoLocals
    /\ Return("Ok")
    /\ UNCHANGED <<sessVars, stmts, copies, rows, netVars, envVars>>

\* PostgresTransaction::set_rollback
PostgresTransaction_set_rollback(h) ==
    /\ StartOp("set_rollback", h)
    /\ trans' = [trans EXCEPT ![h].commit = FALSE]
    /\ cur' = NoLocals
    /\ Return("Ok")
    /\ UNCHANGED <<sessVars, stmts, copies, rows, netVars, envVars>>

\* A selection that looks at the commit flag alone.
FinishQuery_flag_only(commit, depth) ==
    IF commit THEN <<"COMMIT">> ELSE <<"ROLLBACK">>

\* The statement PostgresTransaction::finish_inner selects.
FinishQuery(commit, depth) ==
    CASE ~commit /\ depth # 1 -> <<"ROLLBACK TO", "sp">>
      [] ~commit /\ depth = 1 -> <<"ROLLBACK">>
      [] commit /\ depth # 1  -> <<"RELEASE", "sp">>
      [] OTHER                -> <<"COMMIT">>

\* A finish_inner that leaves trans_depth alone.
finish_inner_keeps_depth(commit, depth, self_finished) ==
    IF depth # trans_depth /\ debug_assertions # "off"
    THEN Panic /\ UNCHANGED <<cur, trans_depth>>
    ELSE /\ cur' = [NoLocals EXCEPT !.q = FinishQuery(commit, depth),
                                    !.commit = commit, !.depth = depth,
                                    !.finished = self_finished]
         /\ UNCHANGED trans_depth
         /\ IF self_finished THEN Call("quick_query", Always("finish_dropped"))
                        ELSE Goto("quick_query")

\* PostgresTransaction::finish_inner on a handle with the given commit flag,
\* depth and finished flag: the assertion, the choice of the statement, the
\* decrement.  Called from Drop (finished is false) its result is the end;
\* called from finish (finished was set) the handle is dropped when finish
\* returns.
finish_inner(commit, depth, self_finished) ==
    IF depth # trans_depth /\ debug_assertions # "off"
    THEN Panic /\ UNCHANGED <<cur, trans_depth>>
    ELSE /\ cur' = [NoLocals EXCEPT !.q = FinishQuery(commit, depth),
                                    !.commit = commit, !.depth = depth,
                                    !.finished = self_finished]
         /\ trans_depth' = trans_depth - 1
         /\ IF self_finished THEN Call("quick_query", Always("finish_dropped"))
                        ELSE Goto("quick_query")

\* PostgresTransaction::finish: consumes the handle.
PostgresTransaction_finish(h) ==
    /\ StartOp("finish", h)
    /\ Innermost(h)
    /\ trans' = SubSeq(trans, 1, h - 1)
    /\ finish_inner(trans[h].commit, trans[h].depth, TRUE)
    /\ UNCHANGED <<desynchronized, finished, next_stmt_id, notifications,
                   unknown_types, stmts, copies, rows, netVars, envVars>>

\* PostgresTransaction::commit: set_commit, then finish.
PostgresTransaction_commit(h) ==
    /\ StartOp("commit", h)
    /\ Innermost(h)
    /\ trans' = SubSeq(trans, 1, h - 1)
    /\ finish_inner(TRUE, trans[h].depth, TRUE)
    /\ UNCHANGED <<desynchronized, finished, next_stmt_id, notifications,
                   unknown_types, stmts, copies, rows, netVars, envVars>>

\* Drop for PostgresTransaction: the handle was not finished, so
\* finish_inner runs and its result is discarded.
PostgresTransaction_drop(h) ==
    /\ StartOp("drop", h)
    /\ Innermost(h)
    /\ trans' = SubSeq(trans, 1, h - 1)
    /\ finish_inner(trans[h].commit, trans[h].depth, FALSE)
    /\ UNCHANGED <<desynchronized, finished, next_stmt_id, notifications,
                   unknown_types, stmts, copies, rows, netVars, envVars>>

\* finish has its result and the handle it consumed is dropped: Drop runs
\* finish_inner once more unless self.finished is set.
finish_dropped ==
    /\ pc = "finish_dropped"
    /\ IF cur.finished
       THEN Return(res) /\ UNCHANGED <<cur, trans_depth>>
       ELSE finish_inner(cur.commit, cur.depth, FALSE)
    /\ UNCHANGED <<op, written, desynchronized, finished, next_stmt_id,
                   notifications, unknown_types, hndVars, netVars, envVars>>

----------------------------------------------------------------------------
(* Prepared statements                                                     *)

StmtName(id) == <<"s", id>>

\* The length of a type vector.
VecLen(vec) == IF vec = "none" THEN 0 ELSE 1

TypeLookup == <<"SELECT typname FROM pg_type WHERE oid=", "U">>

\* A variant that formats the name and leaves the counter where it was.
raw_prepare_keeps_counter ==
    /\ pc = "raw_prepare"
    /\ cur' = [cur EXCEPT !.name = StmtName(next_stmt_id)]
    /\ WriteThen(<<Msg("Parse", <<StmtName(next_stmt_id), cur.q>>),
                   Msg("Describe", <<"S", StmtName(next_stmt_id)>>),
                   Msg("Sync", <<>>)>>, "raw_prepare_parse")
    /\ UNCHANGED <<op, finished, trans_depth, next_stmt_id, notifications,
                   unknown_types, hndVars, envVars>>

\* InnerPostgresConnection::raw_prepare: the name, Parse + Describe + Sync.
raw_prepare ==
    /\ pc = "raw_prepare"
    /\ cur' = [cur EXCEPT !.name = StmtName(next_stmt_id)]
    /\ next_stmt_id' = next_stmt_id + 1
    /\ WriteThen(<<Msg("Parse", <<StmtName(next_stmt_id), cur.q>>),
                   Msg("Describe", <<"S", StmtName(next_stmt_id)>>),
                   Msg("Sync", <<>>)>>, "raw_prepare_parse")
    /\ UNCHANGED <<op, finished, trans_depth, notifications, unknown_types,
                   hndVars, envVars>>

\* raw_prepare: the answer to Parse.
raw_prepare_parse ==
    /\ Reads("raw_prepare_parse")
    /\ Consume
    /\ LET m == Head(toClient) IN
       CASE m.k = "ParseComplete" ->
              Goto("raw_prepare_params") /\ UNCHANGED desynchronized
         [] m.k = "ErrorResponse" ->
              Call("wait_for_ready", TryRet("Db")) /\ UNCHANGED desynchronized
         [] OTHER -> bad_response
    /\ UNCHANGED <<op, written, cur, finished, trans_depth, next_stmt_id,
                   notifications, unknown_types, hndVars, envVars>>

\* raw_prepare: the parameter description.
raw_prepare_params ==
    /\ Reads("raw_prepare_params")
    /\ Consume
    /\ LET m == Head(toClient) IN
       IF m.k = "ParameterDescription"
       THEN /\ cur' = [cur EXCEPT !.ptypes = m.a[1]]
            /\ Goto("raw_prepare_rows")
            /\ UNCHANGED desynchronized
       ELSE bad_response /\ UNCHANGED cur
    /\ UNCHANGED <<op, written, finished, trans_depth, next_stmt_id,
                   notifications, unknown_types, hndVars, envVars>>

\* raw_prepare: the row description, then wait_for_ready.
raw_prepare_rows ==
    /\ Reads("raw_prepare_rows")
    /\ Consume
    /\ LET m == Head(toClient) IN
       CASE m.k = "RowDescription" ->
              /\ cur' = [cur EXCEPT !.rdesc = m.a[1]]
              /\ Call("wait_for_ready", Try("set_type_names_params"))
              /\ UNCHANGED desynchronized
         [] m.k = "NoData" ->
              /\ cur' = [cur EXCEPT !.rdesc = "none"]
              /\ Call("wait_for_ready", Try("set_type_names_params"))
              /\ UNCHANGED desynchronized
         [] OTHER -> bad_response /\ UNCHANGED cur
    /\ UNCHANGED <<op, written, finished, trans_depth, next_stmt_id,
                   notifications, unknown_types, hndVars, envVars>>

\* set_type_names over a type vector: get_type_name for an unknown type
\* whose name is not cached runs the pg_type lookup.
set_type_names(vec, next) ==
    IF vec = "unknown" /\ "U" \notin unknown_types
    THEN /\ cur' = [cur EXCEPT !.q = TypeLookup]
         /\ pc' = "quick_query"
         /\ kont' = <<Try("get_type_name_ok"), Try(next)>> \o kont
         /\ UNCHANGED res
    ELSE Goto(next) /\ UNCHANGED cur

\* raw_prepare: set_type_names(param_types)
set_type_names_params ==
    /\ pc = "set_type_names_params"
    /\ set_type_names(cur.ptypes, "set_type_names_result")
    /\ UNCHANGED <<op, written, sessVars, hndVars, netVars, envVars>>

\* raw_prepare: set_type_names(result_desc), then Ok.
set_type_names_result ==
    /\ pc = "set_type_names_result"
    /\ set_type_names(cur.rdesc, "raw_prepare_ok")
    /\ UNCHANGED <<op, written, sessVars, hndVars, netVars, envVars>>

\* get_type_name: the name the lookup returned is cached.
get_type_name_ok ==
    /\ pc = "get_type_name_ok"
    /\ unknown_types' = unknown_types \cup {"U"}
    /\ Return("Ok")
    /\ UNCHANGED <<op, written, cur, desynchronized, finished, trans_depth,
                   next_stmt_id, notifications, hndVars, netVars, envVars>>

\* raw_prepare returns Ok((stmt_name, param_types, result_desc)).
raw_prepare_ok ==
    /\ pc = "raw_prepare_ok"
    /\ Return("Ok")
    /\ UNCHANGED <<op, written, cur, sessVars, hndVars, netVars, envVars>>

\* InnerPostgresConnection::prepare: the statement handle is built.
prepare_ok ==
    /\ pc = "prepare_ok"
    /\ stmts' = stmts \cup {[name |-> cur.name, owner |-> op.via,
                             param_types |-> VecLen(cur.ptypes),
                             result_desc |-> VecLen(cur.rdesc),
                             next_portal_id |-> 0]}
    /\ Return("Ok")
    /\ UNCHANGED <<op, written, cur, sessVars, trans, copies, rows, netVars, envVars>>

\* PostgresConnection::prepare
PostgresConnection_prepare ==
    /\ StartOp("prepare", 0)
    /\ ~finished
    /\ IF trans_depth # 0
       THEN Return("WrongTransaction") /\ cur' = NoLocals
       ELSE /\ next_stmt_id < cap.stmts
            /\ cur' = [NoLocals EXCEPT !.q = <<"user statement">>]
            /\ Call("raw_prepare", Try("prepare_ok"))
    /\ UNCHANGED <<sessVars, hndVars, netVars, envVars>>

\* PostgresTransaction::prepare
PostgresTransaction_prepare(h) ==
    /\ StartOp("prepare", h)
    /\ IF trans_depth # trans[h].depth
       THEN Return("WrongTransaction") /\ cur' = NoLocals
       ELSE /\ next_stmt_id < cap.stmts
            /\ cur' = [NoLocals EXCEPT !.q = <<"user statement">>]
            /\ Call("raw_prepare", Try("prepare_ok"))
    /\ UNCHANGED <<sessVars, hndVars, netVars, envVars>>

\* InnerPostgresConnection::close_statement: Close + Sync.
close_statement ==
    /\ pc = "close_statement"
    /\ WriteThen(<<Msg("Close", <<"S", cur.name>>), Msg("Sync", <<>>)>>,
                 "close_statement_loop")
    /\ UNCHANGED <<op, cur, finished, trans_depth, next_stmt_id, notifications,
                   unknown_types, hndVars, envVars>>

\* close_statement: the loop over the answers.
close_statement_loop ==
    /\ Reads("close_statement_loop")
    /\ Consume
    /\ LET m == Head(toClient) IN
       CASE m.k = "ReadyForQuery" -> Return("Ok")
         [] m.k = "ErrorResponse" -> Call("wait_for_ready", TryRet("Db"))
         [] OTHER -> Goto("close_statement_loop")
    /\ UNCHANGED <<op, written, cur, sessVars, hndVars, envVars>>

\* PostgresStatement::finish_inner
PostgresStatement_finish_inner ==
    /\ pc = "stmt_finish_inner"
    /\ IF check_desync THEN Return("Desync") ELSE Goto("close_statement")
    /\ UNCHANGED <<op, written, cur, sessVars, hndVars, netVars, envVars>>

\* PostgresStatement::finish and Drop for PostgresStatement: the handle
\* goes away and finish_inner runs.
PostgresStatement_finish(s) ==
    /\ StartOp("stmt_finish", s.owner)
    /\ s \in stmts
    /\ \A r \in rows : r.stmt # s.name
    /\ stmts' = stmts \ {s}
    /\ cur' = [NoLocals EXCEPT !.name = s.name]
    /\ Goto("stmt_finish_inner")
    /\ UNCHANGED <<sessVars, trans, copies, rows, netVars, envVars>>

\* An inner_execute that does not compare the parameter count.
inner_execute_uncounted ==
    /\ pc = "inner_execute"
    /\ WriteThen(<<Msg("Bind", <<cur.portal, cur.name, cur.n>>),
                   Msg("Execute", <<cur.portal, cur.row_limit>>),
                   Msg("Sync", <<>>)>>, "inner_execute_bind")
    /\ UNCHANGED <<op, cur, finished, trans_depth, next_stmt_id, notifications,
                   unknown_types, hndVars, envVars>>

\* PostgresStatement::inner_execute: the parameter count, Bind + Execute +
\* Sync.  cur.n parameters are passed.
inner_execute ==
    /\ pc = "inner_execute"
    /\ IF VecLen(cur.ptypes) # cur.n
       THEN Return("WrongParamCount") /\ UNCHANGED <<written, desynchronized, netVars>>
       ELSE WriteThen(<<Msg("Bind", <<cur.portal, cur.name, cur.n>>),
                        Msg("Execute", <<cur.portal, cur.row_limit>>),
                        Msg("Sync", <<>>)>>, "inner_execute_bind")
    /\ UNCHANGED <<op, cur, finished, trans_depth, next_stmt_id, notifications,
                   unknown_types, hndVars, envVars>>

\* inner_execute: the answer to Bind.
inner_execute_bind ==
    /\ Reads("inner_execute_bind")
    /\ Consume
    /\ LET m == Head(toClient) IN
       CASE m.k = "BindComplete" -> Return("Ok") /\ UNCHANGED desynchronized
         [] m.k = "ErrorResponse" ->
              Call("wait_for_ready", TryRet("Db")) /\ UNCHANGED desynchronized
         [] OTHER -> desynchronized' = TRUE /\ Return("BadResponse")
    /\ UNCHANGED <<op, written, cur, finished, trans_depth, next_stmt_id,
                   notifications, unknown_types, hndVars, envVars>>

\* PostgresStatement::execute: the desynchronization check, then
\* inner_execute("", 0, params).
stmt_execute ==
    /\ pc = "stmt_execute"
    /\ IF check_desync
       THEN Return("Desync") /\ UNCHANGED cur
       ELSE /\ cur' = [cur EXCEPT !.portal = <<>>, !.row_limit = 0]
            /\ Call("inner_execute", Try("execute_loop"))
    /\ UNCHANGED <<op, written, sessVars, hndVars, netVars, envVars>>

\* util::parse_update_count: the number at the end of the tag, 0 when the
\* tag has none.
parse_update_count(tag) == IF tag = <<>> THEN 0 ELSE tag[Len(tag)]

\* PostgresStatement::execute: the loop over the answers to Execute.
execute_loop ==
    /\ Reads("execute_loop")
    /\ LET m == Head(toClient) IN
       CASE m.k = "DataRow" ->
              Consume /\ Goto("execute_loop") /\ UNCHANGED <<written, desynchronized>>
         [] m.k = "ErrorResponse" ->
              /\ Consume
              /\ Call("wait_for_ready", TryRet("Db"))
              /\ UNCHANGED <<written, desynchronized>>
         [] m.k \in {"CommandComplete", "EmptyQueryResponse"} ->
              /\ Consume
              /\ Call("wait_for_ready", TryRet("Ok"))
              /\ UNCHANGED <<written, desynchronized>>
         [] m.k = "CopyInResponse" ->
              ReadWriteThen(CopyFailSync, "execute_loop")
         [] OTHER ->
              /\ Consume
              /\ desynchronized' = TRUE
              /\ Return("BadResponse")
              /\ UNCHANGED written
    /\ LET m == Head(toClient) IN
       cur' = CASE m.k = "CommandComplete" ->
                     [cur EXCEPT !.tag = m.a, !.num = parse_update_count(m.a)]
                [] m.k = "EmptyQueryResponse" -> [cur EXCEPT !.num = 0]
                [] OTHER -> cur
    /\ UNCHANGED <<op, finished, trans_depth, next_stmt_id, notifications,
                   unknown_types, hndVars, envVars>>

\* PostgresStatement::execute called on a live statement.
PostgresStatement_execute(s, n) ==
    /\ StartOp("stmt_execute", s.owner)
    /\ s \in stmts
    /\ cur' = [NoLocals EXCEPT !.name = s.name,
                               !.ptypes = IF s.param_types = 0 THEN "none" ELSE "known",
                               !.n = n]
    /\ Goto("stmt_execute")
    /\ UNCHANGED <<sessVars, hndVars, netVars, envVars>>

\* PostgresConnection::execute: prepare(query).and_then(|stmt| stmt.execute(params))
PostgresConnection_execute(n) ==
    /\ StartOp("execute", 0)
    /\ ~finished
    /\ IF trans_depth # 0
       THEN Return("WrongTransaction") /\ cur' = NoLocals
       ELSE /\ next_stmt_id < cap.stmts
            /\ cur' = [NoLocals EXCEPT !.q = <<"user statement">>, !.n = n]
            /\ pc' = "raw_prepare"
            /\ kont' = <<Try("and_then_execute")>>
            /\ UNCHANGED res
    /\ UNCHANGED <<sessVars, hndVars, netVars, envVars>>

\* PostgresTransaction::execute
PostgresTransaction_execute(h, n) ==
    /\ StartOp("execute", h)
    /\ IF trans_depth # trans[h].depth
       THEN Return("WrongTransaction") /\ cur' = NoLocals
       ELSE /\ next_stmt_id < cap.stmts
            /\ cur' = [NoLocals EXCEPT !.q = <<"user statement">>, !.n = n]
            /\ pc' = "raw_prepare"
            /\ kont' = <<Try("and_then_execute")>>
            /\ UNCHANGED res
    /\ UNCHANGED <<sessVars, hndVars, netVars, envVars>>

\* execute: prepare succeeded; the closure runs stmt.execute(params).
and_then_execute ==
    /\ pc = "and_then_execute"
    /\ Call("stmt_execute", Always("and_then_drop"))
    /\ UNCHANGED <<op, written, cur, sessVars, hndVars, netVars, envVars>>

\* execute: the temporary statement is dropped (finish_inner, its result
\* discarded) and the result of stmt.execute is returned.
and_then_drop ==
    /\ pc = "and_then_drop"
    /\ cur' = [cur EXCEPT !.saved = res]
    /\ Call("stmt_finish_inner", Always("and_then_return"))
    /\ UNCHANGED <<op, written, sessVars, hndVars, netVars, envVars>>

and_then_return ==
    /\ pc = "and_then_return"
    /\ Return(cur.saved)
    /\ UNCHANGED <<op, written, cur, sessVars, hndVars, netVars, envVars>>

----------------------------------------------------------------------------
(* Row streams: query, lazy_query and the lazy fetch                       *)
(* A row stream is [stmt, name, data, row_limit, more_rows, lazy]: the     *)
(* statement it borrows, its portal, the buffered rows (oldest first), and *)
(* transaction handle a PostgresLazyRows borrows (0 for PostgresRows).     *)

PortalName(stmt, id) == <<stmt, "p", id>>

\* The row stream the current handler works on.
CurRows == [stmt |-> cur.name, name |-> cur.portal, data |-> cur.data,
            row_limit |-> cur.row_limit, more_rows |-> cur.more_rows,
            lazy |-> cur.lazy]

\* The locals of a handler that works on statement s.
StmtLocals(s, n) ==
    [NoLocals EXCEPT !.name = s.name,
                     !.ptypes = IF s.param_types = 0 THEN "none" ELSE "known",
                     !.n = n]

\* PostgresStatement::lazy_query: the portal name, then inner_execute.
lazy_query ==
    /\ pc = "lazy_query"
    /\ \E s \in stmts :
         /\ s.name = cur.name
         /\ stmts' = (stmts \ {s}) \cup {[s EXCEPT !.next_portal_id = @ + 1]}
         /\ cur' = [cur EXCEPT !.portal = PortalName(s.name, s.next_portal_id),
                               !.data = <<>>, !.more_rows = TRUE]
    /\ Call("inner_execute", Try("lazy_query_rows"))
    /\ UNCHANGED <<op, written, sessVars, trans, copies, rows, netVars, envVars>>

\* lazy_query: the PostgresRows value is built and read_rows fills it.
lazy_query_rows ==
    /\ pc = "lazy_query_rows"
    /\ Call("read_rows", Always("lazy_query_end"))
    /\ UNCHANGED <<op, written, cur, sessVars, hndVars, netVars, envVars>>

\* lazy_query: Ok(result), or try! returns the error and result is dropped
\* (Drop for PostgresRows runs finish_inner and discards its result).
lazy_query_end ==
    /\ pc = "lazy_query_end"
    /\ IF res = "Ok"
       THEN /\ rows' = rows \cup {CurRows}
            /\ Return("Ok")
            /\ UNCHANGED cur
       ELSE /\ cur' = [cur EXCEPT !.saved = res]
            /\ Call("rows_finish_inner", Always("and_then_return"))
            /\ UNCHANGED rows
    /\ UNCHANGED <<op, written, sessVars, trans, stmts, copies, netVars, envVars>>

\* A read_rows that returns the database error without waiting for
\* ReadyForQuery.
read_rows_without_wait ==
    /\ Reads("read_rows")
    /\ LET m == Head(toClient) IN
       CASE m.k \in {"EmptyQueryResponse", "CommandComplete"} ->
              /\ Consume
              /\ cur' = [cur EXCEPT !.more_rows = FALSE]
              /\ Goto("wait_for_ready")
              /\ UNCHANGED <<written, desynchronized>>
         [] m.k = "PortalSuspended" ->
              /\ Consume
              /\ cur' = [cur EXCEPT !.more_rows = TRUE]
              /\ Goto("wait_for_ready")
              /\ UNCHANGED <<written, desynchronized>>
         [] m.k = "DataRow" ->
              /\ Consume
              /\ cur' = [cur EXCEPT !.data = Append(@, m.a)]
              /\ Goto("read_rows")
              /\ UNCHANGED <<written, desynchronized>>
         [] m.k = "ErrorResponse" ->
              /\ Consume
              /\ Return("Db")
              /\ UNCHANGED <<written, desynchronized, cur>>
         [] m.k = "CopyInResponse" ->
              ReadWriteThen(CopyFailSync, "read_rows") /\ UNCHANGED cur
         [] OTHER ->
              /\ Consume
              /\ desynchronized' = TRUE
              /\ Return("BadResponse")
              /\ UNCHANGED <<written, cur>>
    /\ UNCHANGED <<op, finished, trans_depth, next_stmt_id, notifications,
                   unknown_types, hndVars, envVars>>

\* PostgresRows::read_rows: the loop over the answers to Execute.
read_rows ==
    /\ Reads("read_rows")
    /\ LET m == Head(toClient) IN
       CASE m.k \in {"EmptyQueryResponse", "CommandComplete"} ->
              /\ Consume
              /\ cur' = [cur EXCEPT !.more_rows = FALSE]
              /\ Goto("wait_for_ready")
              /\ UNCHANGED <<written, desynchronized>>
         [] m.k = "PortalSuspended" ->
              /\ Consume
              /\ cur' = [cur EXCEPT !.more_rows = TRUE]
              /\ Goto("wait_for_ready")
              /\ UNCHANGED <<written, desynchronized>>
         [] m.k = "DataRow" ->
              /\ Consume
              /\ cur' = [cur EXCEPT !.data = Append(@, m.a)]
              /\ Goto("read_rows")
              /\ UNCHANGED <<written, desynchronized>>
         [] m.k = "ErrorResponse" ->
              /\ Consume
              /\ Call("wait_for_ready", TryRet("Db"))
              /\ UNCHANGED <<written, desynchronized, cur>>
         [] m.k = "CopyInResponse" ->
              ReadWriteThen(CopyFailSync, "read_rows") /\ UNCHANGED cur
         [] OTHER ->
              /\ Consume
              /\ desynchronized' = TRUE
              /\ Return("BadResponse")
              /\ UNCHANGED <<written, cur>>
    /\ UNCHANGED <<op, finished, trans_depth, next_stmt_id, notifications,
                   unknown_types, hndVars, envVars>>

\* PostgresRows::execute: Execute + Sync on the portal, then read_rows.
rows_execute ==
    /\ pc = "rows_execute"
    /\ WriteThen(<<Msg("Execute", <<cur.portal, cur.row_limit>>),
                   Msg("Sync", <<>>)>>, "read_rows")
    /\ UNCHANGED <<op, cur, finished, trans_depth, next_stmt_id, notifications,
                   unknown_types, hndVars, envVars>>

\* A finish_inner that leaves the portal to the backend.
PostgresRows_finish_inner_no_close ==
    /\ pc = "rows_finish_inner"
    /\ Return(IF check_desync THEN "Desync" ELSE "Ok")
    /\ UNCHANGED <<written, desynchronized, netVars>>
    /\ UNCHANGED <<op, cur, finished, trans_depth, next_stmt_id, notifications,
                   unknown_types, hndVars, envVars>>

\* PostgresRows::finish_inner: the desynchronization check, Close + Sync.
PostgresRows_finish_inner ==
    /\ pc = "rows_finish_inner"
    /\ IF check_desync
       THEN Return("Desync") /\ UNCHANGED <<written, desynchronized, netVars>>
       ELSE WriteThen(<<Msg("Close", <<"P", cur.portal>>), Msg("Sync", <<>>)>>,
                      "rows_finish_loop")
    /\ UNCHANGED <<op, cur, finished, trans_depth, next_stmt_id, notifications,
                   unknown_types, hndVars, envVars>>

\* PostgresRows::finish_inner: the loop over the answers.
rows_finish_loop ==
    /\ Reads("rows_finish_loop")
    /\ Consume
    /\ LET m == Head(toClient) IN
       CASE m.k = "ReadyForQuery" -> Return("Ok")
         [] m.k = "ErrorResponse" -> Call("wait_for_ready", TryRet("Db"))
         [] OTHER -> Goto("rows_finish_loop")
    /\ UNCHANGED <<op, written, cur, sessVars, hndVars, envVars>>

\* PostgresStatement::query: the desynchronization check, lazy_query(0, params).
PostgresStatement_query(s, n) ==
    /\ StartOp("query", s.owner)
    /\ s \in stmts
    /\ IF check_desync
       THEN Return("Desync") /\ cur' = NoLocals
       ELSE /\ s.next_portal_id < cap.portals
            /\ Cardinality(rows) < cap.rows
            /\ cur' = StmtLocals(s, n)
            /\ Goto("lazy_query")
    /\ UNCHANGED <<sessVars, hndVars, netVars, envVars>>

\* The row limits lazy_query is called with: none (<= 0), one or two rows a
\* batch.
RowLimits == {-1, 0, 1, 2}

\* PostgresTransaction::lazy_query: the statement must be of this
\* connection (mine; a statement of another connection stands for itself
\* here as s with mine = FALSE); then the desynchronization check and
\* stmt.lazy_query(row_limit, params).
PostgresTransaction_lazy_query(h, s, n, row_limit, mine) ==
    /\ StartOp("lazy_query", h)
    /\ s \in stmts
    /\ IF ~mine
       THEN Return("WrongConnection") /\ cur' = NoLocals
       ELSE IF check_desync
       THEN Return("Desync") /\ cur' = NoLocals
       ELSE /\ s.next_portal_id < cap.portals
            /\ Cardinality(rows) < cap.rows
            /\ cur' = [StmtLocals(s, n) EXCEPT !.row_limit = row_limit, !.lazy = h]
            /\ Goto("lazy_query")
    /\ UNCHANGED <<sessVars, hndVars, netVars, envVars>>

\* PostgresRows::finish and Drop for PostgresRows: the stream goes away and
\* finish_inner runs.
PostgresRows_finish(r) ==
    /\ StartOp("rows_finish", r.lazy)
    /\ r \in rows
    /\ rows' = rows \ {r}
    /\ cur' = [NoLocals EXCEPT !.portal = r.name]
    /\ Goto("rows_finish_inner")
    /\ UNCHANGED <<sessVars, trans, stmts, copies, netVars, envVars>>

\* The locals of a handler that works on row stream r.
RowsLocals(r) ==
    [NoLocals EXCEPT !.name = r.stmt, !.portal = r.name, !.data = r.data,
                     !.row_limit = r.row_limit, !.more_rows = r.more_rows,
                     !.lazy = r.lazy]

\* A try_next that fetches whenever more rows are expected.
PostgresRows_try_next_eager(r) ==
    /\ StartOp("try_next", r.lazy)
    /\ r \in rows
    /\ rows' = rows \ {r}
    /\ cur' = RowsLocals(r)
    /\ IF r.more_rows
       THEN Call("rows_execute", Always("try_next_pop"))
       ELSE Goto("try_next_pop")
    /\ UNCHANGED <<sessVars, trans, stmts, copies, netVars, envVars>>

\* PostgresRows::try_next: when the buffer is empty and more rows are
\* expected, execute() fetches the next batch.
PostgresRows_try_next(r) ==
    /\ StartOp("try_next", r.lazy)
    /\ r \in rows
    /\ rows' = rows \ {r}
    /\ cur' = RowsLocals(r)
    /\ IF r.data = <<>> /\ r.more_rows
       THEN Call("rows_execute", Always("try_next_pop"))
       ELSE Goto("try_next_pop")
    /\ UNCHANGED <<sessVars, trans, stmts, copies, netVars, envVars>>

\* A try_next that hands out the newest buffered row instead of the oldest.
try_next_pop_back ==
    /\ pc = "try_next_pop"
    /\ IF res \notin {"", "Ok"}
       THEN /\ rows' = rows \cup {CurRows}
            /\ IF cur.lazy = 0 THEN Panic ELSE Return(res)
            /\ UNCHANGED cur
       ELSE IF cur.data # <<>>
       THEN /\ cur' = [cur EXCEPT !.data = SubSeq(@, 1, Len(@) - 1),
                                  !.row = cur.data[Len(cur.data)]]
            /\ rows' = rows \cup {[CurRows EXCEPT !.data = SubSeq(@, 1, Len(@) - 1)]}
            /\ Return("Row")
       ELSE /\ rows' = rows \cup {CurRows}
            /\ Return("None")
            /\ UNCHANGED cur
    /\ UNCHANGED <<op, written, sessVars, trans, stmts, copies, netVars, envVars>>

\* try_next: Some(Err(err)) when the fetch failed, else the front row or
\* None.  Iterator::next of PostgresRows unwraps the result: an error there
\* panics.
try_next_pop ==
    /\ pc = "try_next_pop"
    /\ IF res \notin {"", "Ok"}
       THEN /\ rows' = rows \cup {CurRows}
            /\ IF cur.lazy = 0 THEN Panic ELSE Return(res)
            /\ UNCHANGED cur
       ELSE IF cur.data # <<>>
       THEN /\ cur' = [cur EXCEPT !.data = Tail(@), !.row = Head(cur.data)]
            /\ rows' = rows \cup {[CurRows EXCEPT !.data = Tail(@)]}
            /\ Return("Row")
       ELSE /\ rows' = rows \cup {CurRows}
            /\ Return("None")
            /\ UNCHANGED cur
    /\ UNCHANGED <<op, written, sessVars, trans, stmts, copies, netVars, envVars>>

\* RowIndex for uint: Some(idx) as <<idx>>, None as <<>>.
RowIndex_idx(idx, len) == IF idx > len THEN <<>> ELSE <<idx>>

\* PostgresRow::get_opt with an ordinal index, on the row try_next has just
\* handed out: idx.idx(stmt).ok_or(PgInvalidColumn), then
\* stmt.result_desc[idx] and data[idx], which panic when idx is out of
\* bounds.
PostgresRow_get_opt(idx) ==
    /\ pc = "return"
    /\ op.name = "try_next"
    /\ res = "Row"
    /\ \E s \in stmts :
         /\ s.name = cur.name
         /\ cur' = [cur EXCEPT !.idx = idx, !.columns = s.result_desc]
         /\ LET i == RowIndex_idx(idx, s.result_desc) IN
            IF i = <<>>
            THEN pc' = "return" /\ res' = "InvalidColumn"
            ELSE IF i[1] < s.result_desc
            THEN pc' = "return" /\ res' = "Column"
            ELSE pc' = "panicked" /\ UNCHANGED res
    /\ op' = [op EXCEPT !.name = "get_opt"]
    /\ UNCHANGED <<kont, written, sessVars, hndVars, netVars, envVars>>

Rows ==
    \/ \E idx \in 0..MaxIdx : PostgresRow_get_opt(idx)
    \/ lazy_query
    \/ lazy_query_rows
    \/ lazy_query_end
    \/ read_rows
    \/ rows_execute
    \/ PostgresRows_finish_inner
    \/ rows_finish_loop
    \/ \E s \in stmts, n \in 0..1 : PostgresStatement_query(s, n)
    \/ \E h \in Handles, s \in stmts, n \in 0..1 :
         \E row_limit \in RowLimits, mine \in BOOLEAN :
            PostgresTransaction_lazy_query(h, s, n, row_limit, mine)
    \/ \E r \in rows : PostgresRows_finish(r)
    \/ \E r \in rows : PostgresRows_try_next(r)
    \/ try_next_pop

----------------------------------------------------------------------------
(* Copy-in statements                                                      *)
(* A copy-in statement is [name, owner, column_types]: column_types is the *)
(* number of columns.  A row of the input is the sequence of its values:   *)
(* "null" (to_sql gives None), "bytes" (to_sql gives Some(ValBytes)) or     *)
(* "bad" (to_sql fails).  The rows iterator is cur.input read at cur.pos.   *)

CopyRows == {<<>>, <<"bytes">>, <<"null">>, <<"bad">>, <<"bytes", "bytes">>}

CopyInputs ==
    {<<>>} \cup {<<r>> : r \in CopyRows}
           \cup {<<r1, r2>> : r1 \in {<<"bytes">>, <<"null">>}, r2 \in CopyRows}

\* The bytes to_sql yields for a "bytes" value.
ValBytes == <<4, 2>>

\* write_be_i16 / write_be_i32: n in two's complement, w bytes, most
\* significant byte first (\div rounds down and % is never negative).
RECURSIVE write_be(_, _)
write_be(n, w) ==
    IF w = 0 THEN <<>>
    ELSE Append(write_be(n \div 256, w - 1), n % 256)

write_be_i16(n) == write_be(n, 2)

write_be_i32(n) == write_be(n, 4)

\* b"PGCOPY\n\xff\r\n\x00"
PGCOPY == <<80, 71, 67, 79, 80, 89, 10, 255, 13, 10, 0>>

\* execute, the loop over (row.next(), types.next()) from pair i on: the
\* buffer with the values written so far, and how the row ended: "data"
\* (both exhausted), "fail" (one exhausted before the other), "err"
\* (to_sql failed).
RECURSIVE copy_row(_, _, _, _)
copy_row(row, i, columns, buf) ==
    IF i <= Len(row) /\ i <= columns
    THEN CASE row[i] = "bad"  -> [end |-> "err", buf |-> buf]
           [] row[i] = "null" -> copy_row(row, i + 1, columns, buf \o write_be_i32(-1))
           [] OTHER -> copy_row(row, i + 1, columns,
                                buf \o write_be_i32(Len(ValBytes)) \o ValBytes)
    ELSE IF i <= Len(row) \/ i <= columns
    THEN [end |-> "fail", buf |-> buf]
    ELSE [end |-> "data", buf |-> buf]

\* InnerPostgresConnection::prepare_copy_in: the SELECT that yields the
\* column types has been prepared; it is closed again.
prepare_copy_in_close ==
    /\ pc = "prepare_copy_in_close"
    /\ cur' = [cur EXCEPT !.columns = VecLen(cur.rdesc)]
    /\ Call("close_statement", Try("prepare_copy_in_copy"))
    /\ UNCHANGED <<op, written, sessVars, hndVars, netVars, envVars>>

\* prepare_copy_in: the COPY ... FROM STDIN statement is prepared.
prepare_copy_in_copy ==
    /\ pc = "prepare_copy_in_copy"
    /\ cur' = [cur EXCEPT !.q = <<"COPY FROM STDIN">>]
    /\ Call("raw_prepare", Try("prepare_copy_in_ok"))
    /\ UNCHANGED <<op, written, sessVars, hndVars, netVars, envVars>>

\* prepare_copy_in: the copy-in statement handle is built.
prepare_copy_in_ok ==
    /\ pc = "prepare_copy_in_ok"
    /\ copies' = copies \cup {[name |-> cur.name, owner |-> op.via,
                               column_types |-> cur.columns]}
    /\ Return("Ok")
    /\ UNCHANGED <<op, written, cur, sessVars, trans, stmts, rows, netVars, envVars>>

\* A prepare_copy_in that does not look at trans_depth.
PostgresConnection_prepare_copy_in_unchecked ==
    /\ StartOp("prepare_copy_in", 0)
    /\ ~finished
    /\ next_stmt_id + 1 < cap.stmts
    /\ cur' = [NoLocals EXCEPT !.q = <<"SELECT columns">>]
    /\ Call("raw_prepare", Try("prepare_copy_in_close"))
    /\ UNCHANGED <<sessVars, hndVars, netVars, envVars>>

\* PostgresConnection::prepare_copy_in
PostgresConnection_prepare_copy_in ==
    /\ StartOp("prepare_copy_in", 0)
    /\ ~finished
    /\ IF trans_depth # 0
       THEN Return("WrongTransaction") /\ cur' = NoLocals
       ELSE /\ next_stmt_id + 1 < cap.stmts
            /\ cur' = [NoLocals EXCEPT !.q = <<"SELECT columns">>]
            /\ Call("raw_prepare", Try("prepare_copy_in_close"))
    /\ UNCHANGED <<sessVars, hndVars, netVars, envVars>>

\* PostgresTransaction::prepare_copy_in
PostgresTransaction_prepare_copy_in(h) ==
    /\ StartOp("prepare_copy_in", h)
    /\ IF trans_depth # trans[h].depth
       THEN Return("WrongTransaction") /\ cur' = NoLocals
       ELSE /\ next_stmt_id + 1 < cap.stmts
            /\ cur' = [NoLocals EXCEPT !.q = <<"SELECT columns">>]
            /\ Call("raw_prepare", Try("prepare_copy_in_close"))
    /\ UNCHANGED <<sessVars, hndVars, netVars, envVars>>

\* PostgresCopyInStatement::finish_inner
PostgresCopyInStatement_finish_inner ==
    /\ pc = "copy_finish_inner"
    /\ IF check_desync THEN Return("Desync") ELSE Goto("close_statement")
    /\ UNCHANGED <<op, written, cur, sessVars, hndVars, netVars, envVars>>

\* PostgresCopyInStatement::finish and Drop for PostgresCopyInStatement
PostgresCopyInStatement_finish(c) ==
    /\ StartOp("copy_finish", c.owner)
    /\ c \in copies
    /\ copies' = copies \ {c}
    /\ cur' = [NoLocals EXCEPT !.name = c.name]
    /\ Goto("copy_finish_inner")
    /\ UNCHANGED <<sessVars, trans, stmts, rows, netVars, envVars>>

\* PostgresCopyInStatement::execute called with the rows input.
PostgresCopyInStatement_execute(c, input) ==
    /\ StartOp("copy_execute", c.owner)
    /\ c \in copies
    /\ cur' = [NoLocals EXCEPT !.name = c.name, !.columns = c.column_types,
                               !.input = input]
    /\ Goto("copy_execute")
    /\ UNCHANGED <<sessVars, hndVars, netVars, envVars>>

\* execute: Bind + Execute + Sync.
copy_execute ==
    /\ pc = "copy_execute"
    /\ WriteThen(<<Msg("Bind", <<<<>>, cur.name, 0>>),
                   Msg("Execute", <<<<>>, 0>>),
                   Msg("Sync", <<>>)>>, "copy_execute_bind")
    /\ UNCHANGED <<op, cur, finished, trans_depth, next_stmt_id, notifications,
                   unknown_types, hndVars, envVars>>

\* execute: the answer to Bind.
copy_execute_bind ==
    /\ Reads("copy_execute_bind")
    /\ Consume
    /\ LET m == Head(toClient) IN
       CASE m.k = "BindComplete" -> Goto("copy_execute_response") /\ UNCHANGED desynchronized
         [] m.k = "ErrorResponse" ->
              Call("wait_for_ready", TryRet("Db")) /\ UNCHANGED desynchronized
         [] OTHER -> desynchronized' = TRUE /\ Return("BadResponse")
    /\ UNCHANGED <<op, written, cur, finished, trans_depth, next_stmt_id,
                   notifications, unknown_types, hndVars, envVars>>

\* An execute that lets an unexpected answer to Execute pass as an error
\* of the statement.
copy_execute_response_lenient ==
    /\ Reads("copy_execute_response")
    /\ Consume
    /\ IF Head(toClient).k = "CopyInResponse"
       THEN /\ Goto("copy_execute_rows")
            /\ cur' = [cur EXCEPT !.buf = PGCOPY \o write_be_i32(0) \o write_be_i32(0)]
            /\ UNCHANGED desynchronized
       ELSE Return("BadResponse") /\ UNCHANGED <<cur, desynchronized>>
    /\ UNCHANGED <<op, written, finished, trans_depth, next_stmt_id,
                   notifications, unknown_types, hndVars, envVars>>

\* execute: the answer to Execute must be CopyInResponse; then the buffer
\* gets the signature, the flags and the extension length.
copy_execute_response ==
    /\ Reads("copy_execute_response")
    /\ Consume
    /\ IF Head(toClient).k = "CopyInResponse"
       THEN /\ Goto("copy_execute_rows")
            /\ cur' = [cur EXCEPT !.buf = PGCOPY \o write_be_i32(0) \o write_be_i32(0)]
            /\ UNCHANGED desynchronized
       ELSE desynchronized' = TRUE /\ Return("BadResponse") /\ UNCHANGED cur
    /\ UNCHANGED <<op, written, finished, trans_depth, next_stmt_id,
                   notifications, unknown_types, hndVars, envVars>>

\* A direct write whose failure is returned without marking the session.
stream_write_message_unmarked(m, ok, next) ==
    /\ UNCHANGED desynchronized
    /\ IF ok
       THEN /\ written' = Append(written, m)
            /\ \E o \in BRun(bmode, <<m>>) :
                 /\ bmode' = o.mode
                 /\ toClient' = toClient \o o.out
            /\ Goto(next)
       ELSE /\ toClient' = <<>>
            /\ bmode' = "closed"
            /\ Return("Io")
            /\ UNCHANGED written

\* try_pg_desync!(conn, conn.stream.write_message(m)): one frame written
\* to the stream directly, without write_messages.
stream_write_message(m, ok, next) ==
    /\ try_desync(ok)
    /\ IF ok
       THEN /\ written' = Append(written, m)
            /\ \E o \in BRun(bmode, <<m>>) :
                 /\ bmode' = o.mode
                 /\ toClient' = toClient \o o.out
            /\ Goto(next)
       ELSE /\ toClient' = <<>>
            /\ bmode' = "closed"
            /\ Return("Io")
            /\ UNCHANGED written

\* execute: the next row of the input.  The column count goes into the
\* buffer, then the values.  A value that does not convert returns the
\* error at once; a row with the wrong number of values sends CopyFail and
\* leaves the loop over the rows; any other row is sent as one CopyData
\* and the buffer starts again empty.
copy_execute_rows ==
    /\ pc = "copy_execute_rows"
    /\ IF cur.pos = Len(cur.input)
       THEN /\ Goto("copy_execute_done")
            /\ UNCHANGED <<cur, written, desynchronized, netVars>>
       ELSE LET r == copy_row(cur.input[cur.pos + 1], 1, cur.columns,
                              cur.buf \o write_be_i16(cur.columns)) IN
            CASE r.end = "err" ->
                   /\ Return("WrongType")
                   /\ cur' = [cur EXCEPT !.pos = @ + 1, !.buf = r.buf]
                   /\ UNCHANGED <<written, desynchronized, netVars>>
              [] r.end = "fail" ->
                   /\ \E ok \in BOOLEAN :
                        stream_write_message(Msg("CopyFail", <<"Invalid column count">>),
                                             ok, "copy_execute_done")
                   /\ cur' = [cur EXCEPT !.pos = @ + 1, !.buf = r.buf]
              [] OTHER ->
                   /\ \E ok \in BOOLEAN :
                        stream_write_message(Msg("CopyData", <<r.buf>>), ok,
                                             "copy_execute_rows")
                   /\ cur' = [cur EXCEPT !.pos = @ + 1, !.buf = <<>>]
    /\ UNCHANGED <<op, finished, trans_depth, next_stmt_id, notifications,
                   unknown_types, hndVars, envVars>>

\* An execute that forgets the trailer when rows were sent.
copy_execute_done_bare ==
    /\ pc = "copy_execute_done"
    /\ WriteThen(<<Msg("CopyData", <<IF cur.pos = 0 THEN cur.buf \o write_be_i16(-1)
                                                    ELSE cur.buf>>),
                   Msg("CopyDone", <<>>),
                   Msg("Sync", <<>>)>>, "copy_execute_complete")
    /\ UNCHANGED <<op, cur, finished, trans_depth, next_stmt_id, notifications,
                   unknown_types, hndVars, envVars>>

\* execute: the trailer, CopyDone and Sync.
copy_execute_done ==
    /\ pc = "copy_execute_done"
    /\ WriteThen(<<Msg("CopyData", <<cur.buf \o write_be_i16(-1)>>),
                   Msg("CopyDone", <<>>),
                   Msg("Sync", <<>>)>>, "copy_execute_complete")
    /\ UNCHANGED <<op, cur, finished, trans_depth, next_stmt_id, notifications,
                   unknown_types, hndVars, envVars>>

\* execute: the answer to CopyDone; the count comes from the tag.
copy_execute_complete ==
    /\ Reads("copy_execute_complete")
    /\ Consume
    /\ LET m == Head(toClient) IN
       CASE m.k = "CommandComplete" ->
              /\ cur' = [cur EXCEPT !.num = parse_update_count(m.a)]
              /\ Call("wait_for_ready", TryRet("Ok"))
              /\ UNCHANGED desynchronized
         [] m.k = "ErrorResponse" ->
              Call("wait_for_ready", TryRet("Db")) /\ UNCHANGED <<cur, desynchronized>>
         [] OTHER -> desynchronized' = TRUE /\ Return("BadResponse") /\ UNCHANGED cur
    /\ UNCHANGED <<op, written, finished, trans_depth, next_stmt_id,
                   notifications, unknown_types, hndVars, envVars>>

CopyIn ==
    \/ prepare_copy_in_close
    \/ prepare_copy_in_copy
    \/ prepare_copy_in_ok
    \/ PostgresConnection_prepare_copy_in
    \/ \E h \in Handles : PostgresTransaction_prepare_copy_in(h)
    \/ PostgresCopyInStatement_finish_inner
    \/ \E c \in copies : PostgresCopyInStatement_finish(c)
    \/ \E c \in copies, input \in CopyInputs : PostgresCopyInStatement_execute(c, input)
    \/ copy_execute
    \/ copy_execute_bind
    \/ copy_execute_response
    \/ copy_execute_rows
    \/ copy_execute_done
    \/ copy_execute_complete

----------------------------------------------------------------------------
(* Connecting and closing                                                  *)

NoOp == [name |-> "", via |-> 0, desync0 |-> FALSE, depth0 |-> 0, stmt0 |-> 0,
         unread0 |-> 0]

\* What the caller of connect can give: a database or none, and options.
Databases == {<<>>, <<"db">>}

ParamOptions == {<<>>, <<(<<"client_encoding", "LATIN1">>)>>}

\* Startup parameters with the caller's options after the fixed ones.
startup_parameters_fixed_first(database, options) ==
    <<(<<"client_encoding", "UTF8">>), (<<"TimeZone", "GMT">>), (<<"user", "u">>)>>
    \o (IF database # <<>> THEN <<(<<"database", database[1]>>)>> ELSE <<>>)
    \o options

\* connect: the pushes onto params.options, which already holds what the
\* caller gave.
startup_parameters(database, options) ==
    options
    \o <<(<<"client_encoding", "UTF8">>), (<<"TimeZone", "GMT">>), (<<"user", "u">>)>>
    \o (IF database # <<>> THEN <<(<<"database", database[1]>>)>> ELSE <<>>)

\* InnerPostgresConnection::connect: the user check, the session record,
\* the startup packet.
InnerPostgresConnection_connect(hasUser, hasPassword, database, options) ==
    /\ pc = "unconnected"
    /\ op' = [NoOp EXCEPT !.name = "connect"]
    /\ cur' = [NoLocals EXCEPT !.password = hasPassword, !.database = database,
                               !.options = options]
    /\ IF ~hasUser
       THEN /\ pc' = "closed"
            /\ res' = "MissingUser"
            /\ UNCHANGED <<kont, written, desynchronized, netVars>>
       ELSE \E fail \in 0..2 :
              /\ write_messages(<<Msg("Startup", startup_parameters(database, options))>>,
                                fail, toClient)
              /\ IF fail = 0
                 THEN /\ pc' = "handle_auth"
                      /\ kont' = <<Try("connect_loop"), Always("connect_end")>>
                      /\ UNCHANGED res
                 ELSE /\ pc' = "connect_end"
                      /\ kont' = <<>>
                      /\ res' = "Io"
    /\ UNCHANGED <<finished, trans_depth, next_stmt_id, notifications,
                   unknown_types, hndVars, envVars>>

\* handle_auth: the PasswordMessage for request m: the password itself, or
\* "md5" and the hex digest of (the hex digest of password and user) and
\* the salt.
PasswordMessage(m) ==
    <<Msg("PasswordMessage",
          IF m.k = "AuthenticationCleartextPassword"
          THEN <<"password">>
          ELSE <<"md5", <<"MD5", <<"MD5", "password", "user">>, "salt">>>>)>>

\* A handle_auth that sends the password in clear whatever was requested.
handle_auth_password_in_clear(m) ==
    IF cur.password
    THEN ReadWriteThen(<<Msg("PasswordMessage", <<"password">>)>>, "handle_auth_ok")
    ELSE /\ Consume
         /\ Return("MissingPassword")
         /\ UNCHANGED <<written, desynchronized>>

\* handle_auth: the two requests that need the password.
handle_auth_password(m) ==
    IF cur.password
    THEN ReadWriteThen(PasswordMessage(m), "handle_auth_ok")
    ELSE /\ Consume
         /\ Return("MissingPassword")
         /\ UNCHANGED <<written, desynchronized>>

\* InnerPostgresConnection::handle_auth: the authentication request.
handle_auth ==
    /\ Reads("handle_auth")
    /\ LET m == Head(toClient) IN
       CASE m.k = "AuthenticationOk" ->
              Consume /\ Return("Ok") /\ UNCHANGED <<written, desynchronized>>
         [] m.k \in {"AuthenticationCleartextPassword", "AuthenticationMD5Password"} ->
              handle_auth_password(m)
         [] m.k \in {"AuthenticationKerberosV5", "AuthenticationSCMCredential",
                     "AuthenticationGSS", "AuthenticationSSPI"} ->
              /\ Consume
              /\ Return("UnsupportedAuthentication")
              /\ UNCHANGED <<written, desynchronized>>
         [] m.k = "ErrorResponse" ->
              Consume /\ Return("Db") /\ UNCHANGED <<written, desynchronized>>
         [] OTHER ->
              /\ Consume
              /\ desynchronized' = TRUE
              /\ Return("BadResponse")
              /\ UNCHANGED written
    /\ UNCHANGED <<op, cur, finished, trans_depth, next_stmt_id, notifications,
                   unknown_types, hndVars, envVars>>

\* handle_auth: the answer to the password.
handle_auth_ok ==
    /\ Reads("handle_auth_ok")
    /\ Consume
    /\ LET m == Head(toClient) IN
       CASE m.k = "AuthenticationOk" -> Return("Ok") /\ UNCHANGED desynchronized
         [] m.k = "ErrorResponse" -> Return("Db") /\ UNCHANGED desynchronized
         [] OTHER -> desynchronized' = TRUE /\ Return("BadResponse")
    /\ UNCHANGED <<op, written, cur, finished, trans_depth, next_stmt_id,
                   notifications, unknown_types, hndVars, envVars>>

\* connect: the loop that reads up to the first ReadyForQuery.
connect_loop ==
    /\ Reads("connect_loop")
    /\ Consume
    /\ LET m == Head(toClient) IN
       CASE m.k = "BackendKeyData" -> Goto("connect_loop")
         [] m.k = "ReadyForQuery"  -> Return("Ok")
         [] m.k = "ErrorResponse"  -> Return("Db")
         [] OTHER                  -> Return("BadResponse")
    /\ UNCHANGED <<op, written, cur, sessVars, hndVars, envVars>>

\* connect returns: Ok(conn), or an error, and then the session record is
\* dropped (Drop for InnerPostgresConnection).
connect_end ==
    /\ pc = "connect_end"
    /\ IF res = "Ok"
       THEN /\ pc' = "return"
            /\ UNCHANGED <<kont, cur>>
       ELSE /\ pc' = "conn_drop"
            /\ kont' = <<>>
            /\ cur' = [cur EXCEPT !.saved = res]
    /\ UNCHANGED <<res, op, written, sessVars, hndVars, netVars, envVars>>

\* InnerPostgresConnection::finish_inner
InnerPostgresConnection_finish_inner ==
    /\ pc = "conn_finish_inner"
    /\ IF check_desync
       THEN Return("Desync") /\ UNCHANGED <<written, desynchronized, netVars>>
       ELSE WriteThen(<<Msg("Terminate", <<>>)>>, "conn_finish_ok")
    /\ UNCHANGED <<op, cur, finished, trans_depth, next_stmt_id, notifications,
                   unknown_types, hndVars, envVars>>

conn_finish_ok ==
    /\ pc = "conn_finish_ok"
    /\ Return("Ok")
    /\ UNCHANGED <<op, written, cur, sessVars, hndVars, netVars, envVars>>

\* What the borrow checker allows: the connection is consumed or dropped
\* only when no handle borrowed from it is alive.
Unborrowed == trans = <<>> /\ stmts = {} /\ copies = {} /\ rows = {}

\* PostgresConnection::finish: self is consumed, so the session record is
\* dropped when finish_inner has returned.
PostgresConnection_finish ==
    /\ StartOp("conn_finish", 0)
    /\ Unborrowed
    /\ finished' = TRUE
    /\ cur' = NoLocals
    /\ pc' = "conn_finish_inner"
    /\ kont' = <<Always("conn_drop")>>
    /\ UNCHANGED <<res, desynchronized, trans_depth, next_stmt_id, notifications,
                   unknown_types, hndVars, netVars, envVars>>

\* The application lets an open PostgresConnection go out of scope.
PostgresConnection_drop ==
    /\ StartOp("conn_drop", 0)
    /\ Unborrowed
    /\ cur' = NoLocals
    /\ pc' = "conn_drop"
    /\ UNCHANGED <<kont, res, sessVars, hndVars, netVars, envVars>>

\* A Drop that does not look at `finished`.
InnerPostgresConnection_drop_always ==
    /\ pc = "conn_drop"
    /\ pc' = "conn_finish_inner"
    /\ kont' = <<Always("closed")>>
    /\ UNCHANGED <<res, op, written, cur, sessVars, hndVars, netVars, envVars>>

\* Drop for InnerPostgresConnection: finish_inner unless the session was
\* finished, its result thrown away.
InnerPostgresConnection_drop ==
    /\ pc = "conn_drop"
    /\ IF ~finished
       THEN /\ pc' = "conn_finish_inner"
            /\ kont' = <<Always("closed")>>
       ELSE /\ pc' = "closed"
            /\ kont' = <<>>
    /\ UNCHANGED <<res, op, written, cur, sessVars, hndVars, netVars, envVars>>

----------------------------------------------------------------------------
(* The backend's unsolicited messages                                      *)

\* A notice, a notification or a parameter status arrives before the
\* message the client is about to read: any point of the answer stream.
\* A next() that takes the newest notification.
PostgresNotifications_next_newest ==
    /\ StartOp("next", 0)
    /\ IF notifications = <<>>
       THEN /\ Return("None")
            /\ cur' = NoLocals
            /\ UNCHANGED notifications
       ELSE /\ Return("Some")
            /\ cur' = [NoLocals EXCEPT !.notification = notifications[Len(notifications)]]
            /\ notifications' = SubSeq(notifications, 1, Len(notifications) - 1)
    /\ UNCHANGED <<desynchronized, finished, trans_depth, next_stmt_id,
                   unknown_types, hndVars, netVars, envVars>>

\* PostgresNotifications::next: notifications.pop_front().
PostgresNotifications_next ==
    /\ StartOp("next", 0)
    /\ IF notifications = <<>>
       THEN /\ Return("None")
            /\ cur' = NoLocals
            /\ UNCHANGED notifications
       ELSE /\ Return("Some")
            /\ cur' = [NoLocals EXCEPT !.notification = Head(notifications)]
            /\ notifications' = Tail(notifications)
    /\ UNCHANGED <<desynchronized, finished, trans_depth, next_stmt_id,
                   unknown_types, hndVars, netVars, envVars>>

BackendAsync ==
    /\ asyncLeft > 0
    /\ pc \in ReadLabels
    /\ bmode # "closed"
    /\ \E k \in AsyncKinds : toClient' = <<Msg(k, <<asyncLeft>>)>> \o toClient
    /\ asyncLeft' = asyncLeft - 1
    /\ UNCHANGED <<ctlVars, op, written, cur, sessVars, hndVars, bmode,
                   rogueLeft, cap, cancel, debug_assertions>>

RogueMsg(k) ==
    IF k \in {"ParameterDescription", "RowDescription"} THEN Msg(k, <<"none">>) ELSE B(k)

\* A backend that leaves the protocol: while the client waits for an
\* answer, some message of any kind arrives first.
BackendRogue ==
    /\ rogueLeft > 0
    /\ pc \in ReadLabels
    /\ bmode # "closed"
    /\ \E k \in BackendKinds : toClient' = <<RogueMsg(k)>> \o toClient
    /\ rogueLeft' = rogueLeft - 1
    /\ UNCHANGED <<ctlVars, op, written, cur, sessVars, hndVars, bmode,
                   asyncLeft, cap, cancel, debug_assertions>>

----------------------------------------------------------------------------

(* The cancel side channel. cancel_query is a free function: it takes      *)
(* connection parameters, an SslMode and a PostgresCancelData by value and *)
(* no handle of the session, and it works on a transport of its own.       *)

CANCEL_CODE == 80877102
SSL_CODE    == 80877103

MaxCancel == 1   \* SpecCancel: calls of cancel_query per run

SslModes   == {"NoSsl", "PreferSsl", "RequireSsl"}
ProcessIds == {1, 2}     \* PostgresCancelData.process_id
SecretKeys == {3, 4}     \* PostgresCancelData.secret_key

\* pc: where cancel_query stands; calls: calls made so far; raw: what
\* initialize_stream wrote while it opened the transport; read: bytes read
\* from the transport; socket: frames cancel_query wrote to the opened
\* stream; flushed: the frames that left its buffer; res: what it returned.
NoCancel == [pc |-> "idle", calls |-> 0, ssl |-> "NoSsl", process_id |-> 0,
             secret_key |-> 0, raw |-> <<>>, read |-> 0, socket |-> <<>>,
             flushed |-> <<>>, res |-> ""]

\* Everything but the side channel.
connVars == <<pc, kont, res, op, written, cur, sessVars, hndVars, netVars,
              asyncLeft, rogueLeft, cap, debug_assertions>>

CancelReturn(r) == cancel' = [cancel EXCEPT !.pc = "done", !.res = r]

\* cancel_query, up to params.into_connect_params()
cancel_query(valid, ssl, process_id, secret_key) ==
    /\ cancel.pc \in {"idle", "done"}
    /\ cancel.calls < cap.cancel
    /\ LET c == [NoCancel EXCEPT !.calls = cancel.calls + 1, !.ssl = ssl,
                                 !.process_id = process_id,
                                 !.secret_key = secret_key]
       IN  cancel' = IF valid THEN [c EXCEPT !.pc = "initialize_stream"]
                     ELSE [c EXCEPT !.pc = "done", !.res = "InvalidUrl"]
    /\ UNCHANGED connVars

\* io::initialize_stream: open the socket and, unless the mode is NoSsl,
\* negotiate TLS: SslRequest, then one byte of answer.
initialize_stream ==
    /\ cancel.pc = "initialize_stream"
    /\ \/ CancelReturn("SocketError")
       \/ /\ cancel.ssl = "NoSsl"
          /\ cancel' = [cancel EXCEPT !.pc = "write_message"]
       \/ /\ cancel.ssl # "NoSsl"
          /\ \E answer \in {"S", "N", "eof"}, handshake \in BOOLEAN :
               LET c == [cancel EXCEPT !.raw = <<Msg("SslRequest", <<SSL_CODE>>)>>,
                                       !.read = IF answer = "eof" THEN 0 ELSE 1]
               IN  cancel' =
                     CASE answer = "eof" ->
                            [c EXCEPT !.pc = "done", !.res = "SocketError"]
                       [] answer = "N" /\ cancel.ssl = "RequireSsl" ->
                            [c EXCEPT !.pc = "done", !.res = "NoSslSupport"]
                       [] answer = "N" ->
                            [c EXCEPT !.pc = "write_message"]
                       [] answer = "S" /\ handshake ->
                            [c EXCEPT !.pc = "write_message"]
                       [] OTHER ->
                            [c EXCEPT !.pc = "done", !.res = "SslError"]
    /\ UNCHANGED connVars

\* A variant that opens the side channel as connect opens a session: with a
\* startup message.
cancel_write_message_after_startup(ok) ==
    /\ cancel.pc = "write_message"
    /\ IF ok
         THEN cancel' = [cancel EXCEPT
                  !.pc = "flush",
                  !.socket = <<Msg("Startup", startup_parameters(<<>>, <<>>)),
                               Msg("CancelRequest",
                                   <<CANCEL_CODE, cancel.process_id,
                                     cancel.secret_key>>)>>]
         ELSE CancelReturn("PgConnectStreamError")
    /\ UNCHANGED connVars

\* try_pg_conn!(socket.write_message(&CancelRequest { .. }))
cancel_write_message(ok) ==
    /\ cancel.pc = "write_message"
    /\ IF ok
         THEN cancel' = [cancel EXCEPT
                  !.pc = "flush",
                  !.socket = <<Msg("CancelRequest",
                                   <<CANCEL_CODE, cancel.process_id,
                                     cancel.secret_key>>)>>]
         ELSE CancelReturn("PgConnectStreamError")
    /\ UNCHANGED connVars

\* try_pg_conn!(socket.flush()); Ok(())
cancel_flush(ok) ==
    /\ cancel.pc = "flush"
    /\ IF ok
         THEN cancel' = [cancel EXCEPT !.pc = "done", !.res = "Ok",
                                       !.flushed = cancel.socket]
         ELSE CancelReturn("PgConnectStreamError")
    /\ UNCHANGED connVars

Cancel ==
    \/ \E valid \in BOOLEAN, ssl \in SslModes, process_id \in ProcessIds,
          secret_key \in SecretKeys :
         cancel_query(valid, ssl, process_id, secret_key)
    \/ initialize_stream
    \/ \E ok \in BOOLEAN : cancel_write_message(ok)
    \/ \E ok \in BOOLEAN : cancel_flush(ok)

(* The encoder of frontend frames (message.rs), byte by byte. Here a       *)
(* FrontendMessage is a record with the fields of the enum variant, a      *)
(* string or a byte vector is a sequence of bytes, and an Option is a      *)
(* sequence of length 0 or 1.                                              *)

PROTOCOL_VERSION == 196608   \* 0x0003_0000

MaxFrames == 2   \* SpecFrames: frames written to one stream

None == <<>>
Some(v) == <<v>>

Strs == {<<>>, <<97>>, <<97, 98>>}
ByteVecs == {<<>>, <<1>>, <<0, 0, 0, 9>>}
BindValues == {<<>>, <<None>>, <<Some(<<7, 8>>)>>, <<None, Some(<<>>)>>}

FrontendMessage ==
    [k : {"Bind"}, portal : {<<>>, <<97>>}, statement : {<<115, 48>>},
     formats : {<<>>, <<1>>}, values : BindValues, result_formats : {<<1>>}]
    \cup [k : {"CancelRequest"}, code : {CANCEL_CODE}, process_id : ProcessIds,
          secret_key : SecretKeys]
    \cup [k : {"Close", "Describe"}, variant : {80, 83}, name : {<<>>, <<97>>}]
    \cup [k : {"CopyData"}, data : ByteVecs]
    \cup [k : {"CopyDone", "Sync", "Terminate"}]
    \cup [k : {"CopyFail"}, message : Strs]
    \cup [k : {"Execute"}, portal : {<<>>, <<97>>}, max_rows : {0, 1, 300}]
    \cup [k : {"Parse"}, name : {<<>>, <<97>>}, query : {<<97>>},
          param_types : {<<>>, <<23>>, <<23, 1043>>}]
    \cup [k : {"PasswordMessage"}, password : Strs]
    \cup [k : {"Query"}, query : Strs]
    \cup [k : {"StartupMessage"}, version : {PROTOCOL_VERSION},
          parameters : {<<>>, << <<(<<117>>), (<<97, 98>>)>> >>}]
    \cup [k : {"SslRequest"}, code : {SSL_CODE}]

write_u8(b) == <<b>>
write_be_u32(n) == write_be(n, 4)
write_cstr(s) == s \o <<0>>

RECURSIVE write_each(_, _)
\* for x in xs.iter() { try!(buf.write_...(x)) }
write_each(xs, w) ==
    IF xs = <<>> THEN <<>> ELSE write_be(Head(xs), w) \o write_each(Tail(xs), w)

RECURSIVE write_values(_)
write_values(values) ==
    IF values = <<>> THEN <<>>
    ELSE (IF Head(values) = None THEN write_be_i32(-1)
          ELSE write_be_i32(Len(Head(values)[1])) \o Head(values)[1])
         \o write_values(Tail(values))

RECURSIVE write_parameters(_)
write_parameters(parameters) ==
    IF parameters = <<>> THEN <<>>
    ELSE write_cstr(Head(parameters)[1]) \o write_cstr(Head(parameters)[2])
         \o write_parameters(Tail(parameters))

\* write_message, the match: the type byte chosen for the message, if any
message_ident(message) ==
    CASE message.k = "Bind"            -> Some(66)
      [] message.k = "Close"           -> Some(67)
      [] message.k = "CopyData"        -> Some(100)
      [] message.k = "CopyDone"        -> Some(99)
      [] message.k = "CopyFail"        -> Some(102)
      [] message.k = "Describe"        -> Some(68)
      [] message.k = "Execute"         -> Some(69)
      [] message.k = "Parse"           -> Some(80)
      [] message.k = "PasswordMessage" -> Some(112)
      [] message.k = "Query"           -> Some(81)
      [] message.k = "Sync"            -> Some(83)
      [] message.k = "Terminate"       -> Some(88)
      [] OTHER                         -> None

\* write_message, the match: what goes to buf
message_buf(message) ==
    CASE message.k = "Bind" ->
           write_cstr(message.portal) \o write_cstr(message.statement)
           \o write_be_i16(Len(message.formats)) \o write_each(message.formats, 2)
           \o write_be_i16(Len(message.values)) \o write_values(message.values)
           \o write_be_i16(Len(message.result_formats))
           \o write_each(message.result_formats, 2)
      [] message.k = "CancelRequest" ->
           write_be_u32(message.code) \o write_be_u32(message.process_id)
           \o write_be_u32(message.secret_key)
      [] message.k \in {"Close", "Describe"} ->
           write_u8(message.variant) \o write_cstr(message.name)
      [] message.k = "CopyData" -> message.data
      [] message.k = "CopyFail" -> write_cstr(message.message)
      [] message.k = "Execute" ->
           write_cstr(message.portal) \o write_be_i32(message.max_rows)
      [] message.k = "Parse" ->
           write_cstr(message.name) \o write_cstr(message.query)
           \o write_be_i16(Len(message.param_types))
           \o write_each(message.param_types, 4)
      [] message.k = "PasswordMessage" -> write_cstr(message.password)
      [] message.k = "Query" -> write_cstr(message.query)
      [] message.k = "StartupMessage" ->
           write_be_u32(message.version) \o write_parameters(message.parameters)
           \o write_u8(0)
      [] message.k = "SslRequest" -> write_be_u32(message.code)
      [] OTHER -> <<>>

\* A variant in which the length counts the payload alone.
write_message_payload_length(message) ==
    LET buf == message_buf(message)
    IN  <<message_ident(message), write_be_i32(Len(buf)), buf>>

\* write_message, after the match: the three writes to the stream
write_message(message) ==
    LET buf == message_buf(message)
    IN  <<message_ident(message), write_be_i32(Len(buf) + 4), buf>>

Concat3(w, n) ==
    (IF n >= 1 THEN w[1] ELSE <<>>) \o (IF n >= 2 THEN w[2] ELSE <<>>)
    \o (IF n >= 3 THEN w[3] ELSE <<>>)

\* WriteMessage::write_message on a stream of its own: cur.buf is the byte
\* stream, written the messages handed to it. A write that fails (the
\* first, second or third of the three) ends the use of the stream.
Writer_write_message(message, done) ==
    /\ pc = "unconnected"
    /\ res = ""
    /\ Len(written) < MaxFrames
    /\ written' = Append(written, message)
    /\ cur' = [cur EXCEPT !.buf = cur.buf \o Concat3(write_message(message), done)]
    /\ res' = IF done = 3 THEN "" ELSE "Io"
    /\ UNCHANGED <<pc, kont, op, sessVars, hndVars, netVars, envVars>>

(* The decoder of backend frames (message.rs 284-338) on a byte stream of  *)
(* its own: cur.buf is the stream, cur.pos the bytes taken from it so far, *)
(* cur.num the last request made of read_exact, cur.n the segments the     *)
(* backend wrote, res the last result.                                     *)

MaxBackendFrames == 2   \* SpecRead: segments the stream is made of

\* uint arithmetic wraps at 2^64, a request no stream can satisfy. The
\* model's integers are narrower, so the modulus stands at 2^30, which is
\* as far beyond every stream of the model.
UintModulus == 1073741824

\* What the backend may put on the stream: a type byte (known: '1', 'K',
\* 'Z'; unknown: '?'), a length field, and some bytes.
BackendSegments ==
    {<<ident>> \o write_be_u32(len) \o bytes :
       ident \in {49, 75, 90, 63},
       len \in {0, 3, 4, 5, 12},
       bytes \in {<<>>, <<73>>, <<0, 0, 0, 1, 0, 0, 0, 2>>}}

RECURSIVE read_be(_)
read_be(b) ==
    IF b = <<>> THEN 0 ELSE read_be(SubSeq(b, 1, Len(b) - 1)) * 256 + b[Len(b)]

\* The backend writes before the client starts to decode.
BackendWrites ==
    /\ pc = "unconnected"
    /\ res = ""
    /\ cur.pos = 0
    /\ cur.n < MaxBackendFrames
    /\ \E s \in BackendSegments :
         cur' = [cur EXCEPT !.buf = cur.buf \o s, !.n = cur.n + 1]
    /\ UNCHANGED <<pc, kont, res, op, written, sessVars, hndVars, netVars, envVars>>

\* read_message, the match on ident: "Ok", or "Io" when the tag is unknown
\* or the body is shorter than the fields read from it.
read_message_match(ident, payload) ==
    CASE ident = 49 -> "Ok"
      [] ident = 75 -> IF Len(payload) >= 8 THEN "Ok" ELSE "Io"
      [] ident = 90 -> IF Len(payload) >= 1 THEN "Ok" ELSE "Io"
      [] OTHER -> "Io"

\* read_be_u32() as uint - mem::size_of::<i32>()
read_message_request(lenfield) == (lenfield - 4) % UintModulus

\* ReadMessage::read_message
Reader_read_message ==
    /\ pc = "unconnected"
    /\ res # "Io"
    /\ cur.buf # <<>>
    /\ cur.pos < Len(cur.buf)
    /\ LET rest == SubSeq(cur.buf, cur.pos + 1, Len(cur.buf))
           len  == read_message_request(read_be(SubSeq(rest, 2, 5)))
       IN  IF Len(rest) < 5
             THEN /\ cur' = [cur EXCEPT !.pos = Len(cur.buf), !.num = 0]
                  /\ res' = "Io"
                  /\ pc' = pc
           ELSE IF len > Len(rest) - 5
             THEN \* read_exact cannot be satisfied: the stream ends first,
                  \* or, for a wrapped length, the buffer cannot be had at all
                  /\ cur' = [cur EXCEPT !.pos = Len(cur.buf), !.num = len]
                  /\ \/ res' = "Io" /\ pc' = pc
                     \/ /\ len >= UintModulus - 4
                        /\ res' = res
                        /\ pc' = "panicked"
           ELSE /\ cur' = [cur EXCEPT !.pos = cur.pos + 5 + len, !.num = len]
                /\ res' = read_message_match(rest[1], SubSeq(rest, 6, 5 + len))
                /\ pc' = pc
    /\ UNCHANGED <<kont, op, written, sessVars, hndVars, netVars, envVars>>

(* Decoding a composite value into a record (the derived FromSql of        *)
(* records.rs). The value arrives in the binary format of a record: the    *)
(* i32 number of fields, then per field its type oid (u32), its length     *)
(* (i32, -1 for NULL) and its bytes. cur.input is the value the backend    *)
(* holds, cur.buf its bytes, cur.row the record decoded from it.           *)

MaxFields == 3   \* SpecRecords: fields of a composite value

\* Type oids: text 25, int4 23, float8 701.
\* ('foobar', 100, 15.50::double precision) and what the tests put in their
\* place: a missing, an extra, a NULL or a differently typed field.
RecordFields ==
    {[oid |-> 25,  val |-> Some(<<102, 111, 111>>)],
     [oid |-> 23,  val |-> Some(<<0, 0, 0, 100>>)],
     [oid |-> 701, val |-> Some(<<64, 47, 0, 0, 0, 0, 0, 0>>)],
     [oid |-> 701, val |-> None],
     [oid |-> 23,  val |-> None]}

\* struct InventoryItem { name: String, supplier_id: i32, price: Option<f64> }
\* struct GenericItem<String, i32> { first, second }
RecordTargets ==
    {<<[oid |-> 25, optional |-> FALSE], [oid |-> 23, optional |-> FALSE],
       [oid |-> 701, optional |-> TRUE]>>,
     <<[oid |-> 25, optional |-> FALSE], [oid |-> 23, optional |-> FALSE]>>}

RECURSIVE record_send_fields(_)
record_send_fields(fields) ==
    IF fields = <<>> THEN <<>>
    ELSE write_be_u32(Head(fields).oid)
         \o (IF Head(fields).val = None THEN write_be_i32(-1)
             ELSE write_be_i32(Len(Head(fields).val[1])) \o Head(fields).val[1])
         \o record_send_fields(Tail(fields))

\* The backend's binary output of a record value.
record_send(fields) == write_be_i32(Len(fields)) \o record_send_fields(fields)

\* SELECT (...): the backend puts a composite value into a DataRow.
query_one ==
    /\ pc = "unconnected"
    /\ res = ""
    /\ cur.buf = <<>>
    /\ \E n \in 0..MaxFields : \E fields \in [1..n -> RecordFields] :
         cur' = [cur EXCEPT !.input = fields, !.buf = record_send(fields)]
    /\ UNCHANGED <<pc, kont, res, op, written, sessVars, hndVars, netVars, envVars>>

RECURSIVE read_fields(_, _, _)
\* The cursor over the (oid, length, bytes) triples: field i of the target
\* accepts the oid or the decode ends in WrongType; NULL goes to an
\* optional field only.
read_fields(buf, target, i) ==
    IF i > Len(target)
      THEN [end |-> "Ok", row |-> <<>>]
    ELSE LET oid  == read_be(SubSeq(buf, 1, 4))
             len  == read_be(SubSeq(buf, 5, 8))
             null == SubSeq(buf, 5, 8) = write_be_i32(-1)
             next == IF null THEN SubSeq(buf, 9, Len(buf))
                     ELSE SubSeq(buf, 9 + len, Len(buf))
             rest == read_fields(next, target, i + 1)
         IN  IF Len(buf) < 8 \/ oid # target[i].oid
               THEN [end |-> "WrongType", row |-> <<>>]
             ELSE IF null /\ ~target[i].optional
               THEN [end |-> "WasNull", row |-> <<>>]
             ELSE IF rest.end # "Ok" THEN rest
             ELSE [end |-> "Ok",
                   row |-> <<IF null THEN None ELSE Some(SubSeq(buf, 9, 8 + len))>>
                           \o rest.row]

\* A variant that decodes the fields it wants and never looks at the count.
from_sql_fields_only(buf, target) ==
    IF Len(buf) < 4
      THEN [end |-> "WrongType", row |-> <<>>]
      ELSE read_fields(SubSeq(buf, 5, Len(buf)), target, 1)

\* FromSql::from_sql of the record: the field count, then the fields.
from_sql(buf, target) ==
    IF Len(buf) < 4 \/ read_be(SubSeq(buf, 1, 4)) # Len(target)
      THEN [end |-> "WrongType", row |-> <<>>]
      ELSE read_fields(SubSeq(buf, 5, Len(buf)), target, 1)

\* row.try_get::<_, T>(0)
try_get ==
    /\ pc = "unconnected"
    /\ res = ""
    /\ cur.buf # <<>>
    /\ \E target \in RecordTargets :
         LET r == from_sql(cur.buf, target)
         IN  /\ cur' = [cur EXCEPT !.row = r.row, !.columns = Len(target),
                                   !.data = target]
             /\ res' = r.end
    /\ UNCHANGED <<pc, kont, op, written, sessVars, hndVars, netVars, envVars>>

\* The state before connect.
Fresh ==
    /\ pc = "unconnected"
    /\ kont = <<>>
    /\ res = ""
    /\ op = NoOp
    /\ written = <<>>
    /\ cur = NoLocals
    /\ desynchronized = FALSE
    /\ finished = FALSE
    /\ trans_depth = 0
    /\ next_stmt_id = 0
    /\ notifications = <<>>
    /\ unknown_types = {}
    /\ trans = <<>>
    /\ stmts = {}
    /\ copies = {}
    /\ rows = {}
    /\ bmode = "start"
    /\ toClient = <<>>
    /\ cancel = NoCancel
    /\ debug_assertions = "unknown"

Connect ==
    \/ \E u, p \in BOOLEAN, database \in Databases, options \in ParamOptions :
         InnerPostgresConnection_connect(u, p, database, options)
    \/ handle_auth
    \/ handle_auth_ok
    \/ connect_loop
    \/ connect_end
    \/ InnerPostgresConnection_finish_inner
    \/ conn_finish_ok
    \/ InnerPostgresConnection_drop

Reading ==
    \/ read_message_fail
    \/ read_message_undecoded
    \/ debug_assert_panic
    \/ debug_assert_off
    \/ wait_for_ready

SimpleQuery ==
    \/ quick_query
    \/ quick_query_loop

Transactions ==
    \/ PostgresConnection_transaction
    \/ transaction_ok
    \/ \E h \in Handles :
         \/ PostgresTransaction_transaction(h)
         \/ PostgresTransaction_set_commit(h)
         \/ PostgresTransaction_set_rollback(h)
         \/ PostgresTransaction_finish(h)
         \/ PostgresTransaction_commit(h)
         \/ PostgresTransaction_drop(h)
    \/ finish_dropped

Statements ==
    \/ PostgresConnection_prepare
    \/ \E h \in Handles : PostgresTransaction_prepare(h)
    \/ raw_prepare
    \/ raw_prepare_parse
    \/ raw_prepare_params
    \/ raw_prepare_rows
    \/ set_type_names_params
    \/ set_type_names_result
    \/ get_type_name_ok
    \/ raw_prepare_ok
    \/ prepare_ok
    \/ close_statement
    \/ close_statement_loop
    \/ PostgresStatement_finish_inner
    \/ \E s \in stmts : PostgresStatement_finish(s)
    \/ \E s \in stmts, n \in 0..1 : PostgresStatement_execute(s, n)
    \/ inner_execute
    \/ inner_execute_bind
    \/ stmt_execute
    \/ execute_loop
    \/ \E n \in 0..1 : PostgresConnection_execute(n)
    \/ \E h \in Handles, n \in 0..1 : PostgresTransaction_execute(h, n)
    \/ and_then_execute
    \/ and_then_drop
    \/ and_then_return

\* Every step of the client.
Client ==
    \/ Returned
    \/ Connect
    \/ Reading
    \/ SimpleQuery
    \/ PostgresConnection_batch_execute
    \/ \E h \in Handles : PostgresTransaction_batch_execute(h)
    \/ Transactions
    \/ Statements
    \/ PostgresConnection_finish
    \/ PostgresConnection_drop

\* The session against a backend that keeps to the protocol: statements
\* and copy-in statements.
Init ==
    /\ Fresh
    /\ asyncLeft = 0
    /\ rogueLeft = 0
    /\ cap = [depth |-> MaxDepth, stmts |-> MaxStmtId, rogue |-> 0,
              portals |-> 0, rows |-> 0, cancel |-> 0]

Next ==
    \/ Client
    \/ CopyIn

Spec == Init /\ [][Next]_vars

\* The transaction controller, nested deeper.
InitTxn ==
    /\ Fresh
    /\ asyncLeft = 0
    /\ rogueLeft = 0
    /\ cap = [depth |-> TxnMaxDepth, stmts |-> TxnMaxStmtId, rogue |-> 0,
              portals |-> 0, rows |-> 0, cancel |-> 0]

SpecTxn == InitTxn /\ [][Client]_vars

\* Row streams.
InitRows ==
    /\ Fresh
    /\ asyncLeft = 0
    /\ rogueLeft = 0
    /\ cap = [depth |-> RowsMaxDepth, stmts |-> RowsMaxStmtId, rogue |-> 0,
              portals |-> MaxPortalId, rows |-> MaxRows, cancel |-> 0]

NextRows ==
    \/ Client
    \/ Rows

SpecRows == InitRows /\ [][NextRows]_vars

\* The session against a backend that also pushes notices, notifications
\* and parameter statuses.
InitAsync ==
    /\ Fresh
    /\ asyncLeft = MaxAsync
    /\ rogueLeft = 0
    /\ cap = [depth |-> AsyncMaxDepth, stmts |-> AsyncMaxStmtId, rogue |-> 0,
              portals |-> 0, rows |-> 0, cancel |-> 0]

NextAsync ==
    \/ Client
    \/ read_message_absorb
    \/ BackendAsync
    \/ PostgresNotifications_next

SpecAsync == InitAsync /\ [][NextAsync]_vars

\* The session against a backend that may leave the protocol.
InitRogue ==
    /\ Fresh
    /\ asyncLeft = 0
    /\ rogueLeft = MaxRogue
    /\ cap = [depth |-> RogueMaxDepth, stmts |-> RogueMaxStmtId,
              rogue |-> MaxRogue, portals |-> 0, rows |-> 0, cancel |-> 0]

NextRogue ==
    \/ Client
    \/ BackendRogue

SpecRogue == InitRogue /\ [][NextRogue]_vars

\* A fresh session on which the application only calls execute, against a
\* backend that interleaves notices and notifications.
InitExecute ==
    /\ Fresh
    /\ asyncLeft = MaxAsync
    /\ rogueLeft = 0
    /\ cap = [depth |-> 0, stmts |-> ExecMaxStmtId, rogue |-> 0,
              portals |-> 0, rows |-> 0, cancel |-> 0]

NextExecute ==
    \/ Returned
    \/ Connect
    \/ Reading
    \/ SimpleQuery
    \/ \E n \in 0..1 : PostgresConnection_execute(n)
    \/ raw_prepare
    \/ raw_prepare_parse
    \/ raw_prepare_params
    \/ raw_prepare_rows
    \/ set_type_names_params
    \/ set_type_names_result
    \/ get_type_name_ok
    \/ raw_prepare_ok
    \/ and_then_execute
    \/ stmt_execute
    \/ inner_execute
    \/ inner_execute_bind
    \/ execute_loop
    \/ and_then_drop
    \/ PostgresStatement_finish_inner
    \/ close_statement
    \/ close_statement_loop
    \/ and_then_return
    \/ read_message_absorb
    \/ BackendAsync

SpecExecute == InitExecute /\ [][NextExecute]_vars

\* A session on which the application runs simple queries, with
\* cancel_query running beside it at any moment.
InitCancel ==
    /\ Fresh
    /\ asyncLeft = 0
    /\ rogueLeft = 0
    /\ cap = [depth |-> 0, stmts |-> 0, rogue |-> 0,
              portals |-> 0, rows |-> 0, cancel |-> MaxCancel]

NextCancel ==
    \/ Returned
    \/ Connect
    \/ read_message_fail
    \/ read_message_undecoded
    \/ wait_for_ready
    \/ SimpleQuery
    \/ PostgresConnection_batch_execute
    \/ PostgresConnection_finish
    \/ PostgresConnection_drop
    \/ Cancel

SpecCancel == InitCancel /\ [][NextCancel]_vars

\* The frame encoder alone: any frontend messages, written to one stream.
InitFrames ==
    /\ Fresh
    /\ asyncLeft = 0
    /\ rogueLeft = 0
    /\ cap = [depth |-> 0, stmts |-> 0, rogue |-> 0, portals |-> 0, rows |-> 0,
              cancel |-> 0]

NextFrames ==
    \E message \in FrontendMessage, done \in 0..3 :
       Writer_write_message(message, done)

SpecFrames == InitFrames /\ [][NextFrames]_vars

\* The frame decoder alone, on whatever bytes the backend sent.
NextRead ==
    \/ BackendWrites
    \/ Reader_read_message

SpecRead == InitFrames /\ [][NextRead]_vars

\* The composite decoder alone.
NextRecords ==
    \/ query_one
    \/ try_get

SpecRecords == InitFrames /\ [][NextRecords]_vars

----------------------------------------------------------------------------
(* Properties                                                              *)
(* An operation has returned when pc = "return" (or "closed" once the      *)
(* connection is gone): res is what it returned, written what it handed to *)
(* the transport, op what the session looked like when it was called.      *)

OpDone == pc \in {"return", "closed"}

HasCopyFail == \E i \in DOMAIN written : written[i].k = "CopyFail"

ReadyForQueryOwed ==
    Cardinality({i \in DOMAIN toClient : toClient[i].k = "ReadyForQuery"})

\* The message at the head of toClient is handed to the client's code in
\* this step.
ReadsMessage ==
    /\ toClient # <<>>
    /\ Head(toClient).k \notin AsyncKinds
    /\ toClient' = Tail(toClient) \/ written' # written
    /\ pc' # pc \/ kont' # kont \/ toClient' # toClient
    /\ res' # "Io"
    /\ pc' # "panicked"
    /\ debug_assertions' = debug_assertions

\* C1: once the session is desynchronized, every public operation on it
\* (prepare, prepare_copy_in, execute, query, lazy_query, copy-in execute,
\* batch_execute, transaction, finish and drop of statements, row streams
\* and the connection) returns an error and writes nothing to the transport.
C1_Operations ==
    {"prepare", "prepare_copy_in", "execute", "stmt_execute", "query",
     "lazy_query", "copy_execute", "batch_execute", "transaction",
     "stmt_finish", "copy_finish", "rows_finish", "conn_finish", "conn_drop"}

C1_DesynchronizedFailsWithoutWriting ==
    (OpDone /\ op.desync0 /\ op.name \in C1_Operations)
        => (res # "Ok" /\ written = <<>>)

\* C2: a transport read or write failure inside write_messages, inside
\* read_message_ or in a direct CopyData / CopyFail write of copy-in execute
\* sets desynchronized before the error is returned: whenever an I/O error
\* is the result in hand, is_desynchronized() is true.
C2_TransportFailureDesynchronizes ==
    (res = "Io" \/ cur.saved = "Io") => desynchronized

\* C2, its case: the direct write of the second CopyData (or of the
\* CopyFail that replaces it) failed after the first row went out.
C2_Witness ==
    /\ pc = "return"
    /\ op.name = "copy_execute"
    /\ ~op.desync0
    /\ res = "Io"
    /\ Len(written) = 4
    /\ written[4].k = "CopyData"
    /\ cur.pos = 2
    /\ desynchronized

\* C3: at most one request sequence is in flight: after every operation
\* that returns without desynchronizing the session, every ReadyForQuery
\* the backend owes for the Query and Sync messages written so far has been
\* consumed, so the next exchange starts with none owed.
C3_NoReadyForQueryOwed ==
    (pc = "return" /\ ~desynchronized) => ReadyForQueryOwed = 0

\* C4: database errors are recovered: an operation that started on a
\* synchronized session and returns a Db error for an ErrorResponse that
\* answered its Bind, Execute, Close or Query has read up to and including
\* the following ReadyForQuery and leaves desynchronized = false, unless the
\* transport itself failed afterwards.
C4_DbErrorsAreRecovered ==
    (pc = "return" /\ res = "Db" /\ ~op.desync0 /\ op.unread0 = 0
                   /\ ~HasCopyFail /\ bmode # "closed")
        => (~desynchronized /\ toClient = <<>>)

\* C4, its case: the lazy fetch of further rows got an ErrorResponse.
C4_Witness ==
    /\ pc = "return"
    /\ op.name = "try_next"
    /\ res = "Db"
    /\ ~op.desync0
    /\ op.unread0 = 0
    /\ written = <<Msg("Execute", <<cur.portal, 1>>), Msg("Sync", <<>>)>>
    /\ bmode # "closed"
    /\ ~desynchronized

\* C5: in prepare, an ErrorResponse read at any of the three receive steps
\* (for ParseComplete, for ParameterDescription, for RowDescription/NoData)
\* makes prepare wait for ReadyForQuery, with the session still
\* synchronized.
C5_Steps == {"raw_prepare_parse", "raw_prepare_params", "raw_prepare_rows"}

C5_ErrorResponseAtAnyStep ==
    [][(pc \in C5_Steps /\ ~desynchronized /\ ReadsMessage
                        /\ Head(toClient).k = "ErrorResponse")
         => (pc' = "wait_for_ready" /\ ~desynchronized')]_vars

\* C6: a message of a kind the current step does not allow, read where a
\* specific kind is required (the three steps of prepare, BindComplete, the
\* row drain of execute, wait_for_ready, the authentication step, the
\* startup loop of connect), fails the operation with a bad-response error
\* and sets desynchronized.
C6_Allowed(l) ==
    CASE l = "raw_prepare_parse"  -> {"ParseComplete", "ErrorResponse"}
      [] l = "raw_prepare_params" -> {"ParameterDescription", "ErrorResponse"}
      [] l = "raw_prepare_rows"   -> {"RowDescription", "NoData", "ErrorResponse"}
      [] l = "inner_execute_bind" -> {"BindComplete", "ErrorResponse"}
      [] l = "execute_loop"       -> {"DataRow", "ErrorResponse", "CommandComplete",
                                      "EmptyQueryResponse", "CopyInResponse"}
      [] l = "wait_for_ready"     -> {"ReadyForQuery"}
      [] l = "handle_auth"        -> {"AuthenticationOk", "ErrorResponse",
                                      "AuthenticationCleartextPassword",
                                      "AuthenticationMD5Password",
                                      "AuthenticationKerberosV5"}
      [] l = "handle_auth_ok"     -> {"AuthenticationOk", "ErrorResponse"}
      [] l = "connect_loop"       -> {"BackendKeyData", "ReadyForQuery", "ErrorResponse"}
      [] OTHER                    -> BackendKinds

C6_UnexpectedMessageDesynchronizes ==
    [][(ReadsMessage /\ Head(toClient).k \notin C6_Allowed(pc))
         => (res' = "BadResponse" /\ desynchronized')]_vars

\* C7: trans_depth is the number of live transaction handles and the
\* innermost handle, the only one that can finish, has depth trans_depth; a
\* failed BEGIN or SAVEPOINT creates no handle and leaves trans_depth alone;
\* finishing or dropping a handle decrements it once whatever the result.
C7_FinishOps == {"finish", "commit", "drop"}

C7_DepthCountsHandles ==
    /\ trans_depth = Len(trans)
    /\ \A h \in Handles : trans[h].depth = h
    /\ (pc = "return" /\ op.name = "transaction")
         => /\ trans_depth = IF res = "Ok" THEN op.depth0 + 1 ELSE op.depth0
            /\ res = "Ok" => op.via = op.depth0
    /\ (pc = "return" /\ op.name \in C7_FinishOps)
         => (trans_depth = op.depth0 - 1 /\ op.via = op.depth0)

\* C7, its case: the statement that ends a nested handle failed and the
\* depth went down all the same.
C7_Witness ==
    /\ pc = "return"
    /\ op.name = "drop"
    /\ op.depth0 = 3
    /\ res = "Db"
    /\ trans_depth = 2
    /\ Len(trans) = 2

\* C8: finishing or dropping a handle issues exactly the statement its
\* commit flag and nesting select (outermost: COMMIT / ROLLBACK, nested:
\* RELEASE / ROLLBACK TO); BEGIN is issued only on the step 0 -> 1, COMMIT
\* and ROLLBACK only on 1 -> 0; the flag is false at creation and changes
\* only to true by set_commit and to false by set_rollback (commit() finishes
\* with it set).
C8_Selected(commit, depth) ==
    IF depth = 1
    THEN IF commit THEN "COMMIT" ELSE "ROLLBACK"
    ELSE IF commit THEN "RELEASE" ELSE "ROLLBACK TO"

C8_Statement(i) == written[i].a[1]

C8_FinishIssuesSelected ==
    /\ (pc = "return" /\ op.name \in C7_FinishOps)
         => /\ Cardinality({i \in DOMAIN written : written[i].k = "Query"}) <= 1
            /\ op.name = "commit" => cur.commit
            /\ written # <<>>
                 => (written[1].k = "Query"
                     /\ C8_Statement(1) = C8_Selected(cur.commit, op.depth0))
            /\ res = "Ok" => written # <<>>
            /\ (~op.desync0 /\ written = <<>>) => res = "Io"
    /\ \A i \in DOMAIN written :
         written[i].k = "Query" =>
           /\ C8_Statement(i) = "BEGIN"
                => (op.name = "transaction" /\ op.via = 0 /\ op.depth0 = 0)
           /\ C8_Statement(i) = "SAVEPOINT"
                => (op.name = "transaction" /\ op.depth0 > 0)
           /\ C8_Statement(i) \in {"COMMIT", "ROLLBACK"}
                => (op.name \in C7_FinishOps /\ op.depth0 = 1)
           /\ C8_Statement(i) \in {"RELEASE", "ROLLBACK TO"}
                => (op.name \in C7_FinishOps /\ op.depth0 > 1)

C8_FlagStep ==
    /\ (Len(trans') < Len(trans) /\ pc' # "panicked")
         => cur'.commit = (trans[Len(trans)].commit \/ op'.name = "commit")
    /\ \A h \in 1..Len(trans') :
         IF h > Len(trans)
         THEN ~trans'[h].commit
         ELSE trans'[h].commit # trans[h].commit
                => /\ op'.via = h
                   /\ op'.name = IF trans'[h].commit THEN "set_commit" ELSE "set_rollback"

C8_FinishStatement == []C8_FinishIssuesSelected /\ [][C8_FlagStep]_vars

\* C8, its case: a nested handle on which set_commit was called is dropped
\* and releases its savepoint.
C8_Witness ==
    /\ pc = "return"
    /\ op.name = "drop"
    /\ op.depth0 = 2
    /\ cur.commit
    /\ res = "Ok"
    /\ Len(written) = 1
    /\ C8_Statement(1) = "RELEASE"

\* C9: savepoint statements carry the nesting depth in the savepoint name:
\* a nested transaction begun on a handle of depth d issues SAVEPOINT
\* sp{d+1}, and finishing it issues RELEASE sp{d+1} or ROLLBACK TO sp{d+1}.
C9_SavepointNamesCarryDepth ==
    \A i \in DOMAIN written :
      (written[i].k = "Query"
         /\ C8_Statement(i) \in {"SAVEPOINT", "RELEASE", "ROLLBACK TO"})
        => /\ Len(written[i].a) = 3
           /\ written[i].a[2] = "sp"
           /\ written[i].a[3] = IF C8_Statement(i) = "SAVEPOINT"
                                THEN op.depth0 + 1 ELSE op.depth0

\* C10 as stated: prepare, prepare_copy_in, execute, batch_execute and
\* transaction called on the session handle while trans_depth > 0 fail with
\* WrongTransaction, write nothing and leave trans_depth and the statement
\* counter unchanged.
C10_Operations ==
    {"prepare", "prepare_copy_in", "execute", "batch_execute", "transaction"}

C10_Case ==
    pc = "return" /\ op.via = 0 /\ op.name \in C10_Operations /\ op.depth0 > 0

C10_Untouched ==
    written = <<>> /\ trans_depth = op.depth0 /\ next_stmt_id = op.stmt0

C10_WrongTransaction ==
    C10_Case => (res = "WrongTransaction" /\ C10_Untouched)

\* C10, amended: the five operations called on the session handle while
\* trans_depth > 0 write nothing and leave trans_depth and the statement
\* counter unchanged; they fail with WrongTransaction, except transaction
\* on a desynchronized session, which fails with the desynchronization
\* error because it checks the flag first.
C10_WrongTransactionUnlessDesynchronized ==
    C10_Case
      => /\ C10_Untouched
         /\ res = IF op.name = "transaction" /\ op.desync0
                  THEN "Desync" ELSE "WrongTransaction"

\* C10, its case: transaction() on the session handle of a desynchronized
\* session that has a transaction open.
C10_Witness ==
    /\ C10_Case
    /\ op.name = "transaction"
    /\ op.desync0
    /\ res = "Desync"

\* C11 as stated: prepare, prepare_copy_in, execute, batch_execute and
\* transaction called through a transaction handle whose depth differs from
\* trans_depth fail with WrongTransaction and write nothing.
C11_Case ==
    /\ pc = "return"
    /\ op.name \in C10_Operations
    /\ op.via \in Handles
    /\ trans[op.via].depth # op.depth0

C11_OneChild ==
    \A h1, h2 \in Handles : trans[h1].depth = trans[h2].depth => h1 = h2

C12_Operations == {"stmt_execute", "query", "lazy_query"}

C12_Mismatch == VecLen(cur.ptypes) # cur.n

C12_WrongParamCount ==
    (pc = "return" /\ op.name \in C12_Operations)
      => /\ (~op.desync0 /\ C12_Mismatch)
              => /\ res = "WrongParamCount"
                 /\ written = <<>>
                 /\ ~desynchronized
                 /\ Len(toClient) = op.unread0
                 /\ trans_depth = op.depth0
                 /\ \A r \in rows : r.name # cur.portal
         /\ res = "WrongParamCount" => (C12_Mismatch /\ written = <<>>)

\* C12, its case: lazy_query with one parameter too many on a statement
\* that takes none.
C12_Witness ==
    /\ pc = "return"
    /\ op.name = "lazy_query"
    /\ ~op.desync0
    /\ cur.ptypes = "none"
    /\ cur.n = 1
    /\ res = "WrongParamCount"
    /\ written = <<>>

\* C13: any number of consecutive Session::execute calls on a fresh
\* session, against a backend that keeps to the protocol (results or
\* ErrorResponse, notices and notifications interleaved) and a transport
\* that does not fail, leave trans_depth = 0 and desynchronized = false, and
\* the notifications received are in the queue, each once.
C13_Connected == pc \in {"idle", "return"} /\ op.name # "connect"

C13_QueueKeepsArrivals ==
    \A i \in DOMAIN notifications :
      /\ notifications[i][1] \in (asyncLeft + 1)..MaxAsync
      /\ \A j \in DOMAIN notifications :
           notifications[i] = notifications[j] => i = j
      /\ \A j \in DOMAIN toClient :
           toClient[j].k \in AsyncKinds => toClient[j].a # notifications[i]

C13_ExecuteLeavesSessionClean ==
    (C13_Connected /\ bmode # "closed")
      => /\ trans_depth = 0
         /\ ~desynchronized
         /\ C13_QueueKeepsArrivals

\* C14: for a row stream, a fetch is made exactly when the buffer is empty
\* and more_rows is set; it sends Execute(portal, row_limit) + Sync and the
\* batch ends in PortalSuspended (more_rows stays set) or in
\* CommandComplete / EmptyQueryResponse (more_rows is cleared); the rows are
\* buffered in the order the backend sent them and handed out oldest first,
\* each once; once more_rows is cleared no Execute is sent for the portal.
C14_InArrivalOrder(data) ==
    \A i \in 1..(Len(data) - 1) : data[i + 1][1] = data[i][1] + 1

C14_Fetch == <<Msg("Execute", <<cur.portal, cur.row_limit>>), Msg("Sync", <<>>)>>

C14_StreamState ==
    /\ \A r \in rows : C14_InArrivalOrder(r.data)
    /\ C14_InArrivalOrder(cur.data)
    /\ pc \in {"rows_execute", "read_rows"} => cur.more_rows
    /\ pc = "rows_execute" => cur.data = <<>>
    /\ (pc = "return" /\ op.name = "try_next")
         => /\ written # <<>> => SubSeq(written, 1, 1) = SubSeq(C14_Fetch, 1, 1)
            /\ (written # <<>> /\ res \in {"Row", "None"}) => written = C14_Fetch
            /\ res = "None" => (cur.data = <<>> /\ ~cur.more_rows)
            /\ \A i \in DOMAIN written :
                 written[i].k = "Execute" => written[i] = C14_Fetch[1]

C14_StreamStep ==
    /\ (pc = "idle" /\ op'.name = "try_next")
         => (pc' = "rows_execute" <=> (cur'.data = <<>> /\ cur'.more_rows))
    /\ (pc = "read_rows" /\ pc' = "wait_for_ready" /\ kont' = kont)
         => /\ Head(toClient).k \in {"PortalSuspended", "CommandComplete",
                                     "EmptyQueryResponse"}
            /\ cur'.more_rows = (Head(toClient).k = "PortalSuspended")
            /\ cur'.data = cur.data
    /\ (pc = "read_rows" /\ toClient # <<>> /\ Head(toClient).k = "DataRow"
                         /\ toClient' = Tail(toClient))
         => cur'.data = Append(cur.data, Head(toClient).a)
    /\ (pc = "try_next_pop" /\ res' = "Row")
         => (cur.data # <<>> /\ cur'.row = Head(cur.data) /\ cur'.data = Tail(cur.data))
    /\ (pc \notin {"idle", "return", "lazy_query"} /\ cur'.data # cur.data)
         => pc \in {"read_rows", "try_next_pop"}
    /\ (pc \notin {"idle", "return", "lazy_query"} /\ cur'.more_rows # cur.more_rows)
         => pc = "read_rows"

C14_LazyFetch == []C14_StreamState /\ [][C14_StreamStep]_vars

\* C14, its case: a fetch brought a suspended batch of two rows, the first
\* of which is handed out.
C14_Witness ==
    /\ pc = "return"
    /\ op.name = "try_next"
    /\ res = "Row"
    /\ written = C14_Fetch
    /\ cur.row = <<1>>
    /\ cur.data = <<<<2>>>>
    /\ cur.more_rows

\* C15: with row_limit > 0 a row stream never buffers more than row_limit
\* rows; with row_limit <= 0 the stream is complete when lazy_query returns
\* it (as with query), and iterating it writes nothing to the transport.
C15_Bounded(r) ==
    IF r.row_limit > 0
    THEN Len(r.data) <= r.row_limit
    ELSE ~r.more_rows

C15_RowLimit ==
    /\ \A r \in rows : C15_Bounded(r)
    /\ cur.row_limit > 0 => Len(cur.data) <= cur.row_limit
    /\ (pc = "return" /\ op.name = "try_next" /\ cur.row_limit <= 0)
         => (written = <<>> /\ res \in {"Row", "None"})

\* C15, its case: a stream with row_limit 2 holds a full batch of two rows
\* after a fetch.
C15_Witness ==
    /\ pc = "try_next_pop"
    /\ op.name = "try_next"
    /\ cur.row_limit = 2
    /\ Len(cur.data) = 2
    /\ cur.more_rows
    /\ written = C14_Fetch

\* C15, its other case: a stream made with row_limit -1 hands out its
\* second row without a write.
C15_WitnessUnlimited ==
    /\ pc = "return"
    /\ op.name = "try_next"
    /\ cur.row_limit < 0
    /\ cur.row = <<2>>
    /\ res = "Row"
    /\ written = <<>>

\* C16: get_opt with an ordinal index uses the strict bound: on a row of a
\* statement with len result columns, idx >= len returns InvalidColumn (no
\* panic, no access outside the row) and idx < len addresses column idx.
C16_StrictBound ==
    op.name = "get_opt"
      => IF cur.idx >= cur.columns
         THEN pc = "return" /\ res = "InvalidColumn"
         ELSE pc = "return" /\ res = "Column"

\* C17: the notification queue is FIFO and lossless: a NotificationResponse
\* read during an exchange is appended once (and nothing else is), next()
\* returns the oldest queued notification and removes it, returns None
\* exactly when the queue is empty, and the queue changes in no other way.
C17_Absorbs ==
    /\ pc \in ReadLabels
    /\ toClient # <<>>
    /\ Head(toClient).k \in AsyncKinds
    /\ toClient' = Tail(toClient)

C17_QueueStep ==
    /\ C17_Absorbs
         => notifications' = IF Head(toClient).k = "NotificationResponse"
                             THEN Append(notifications, Head(toClient).a)
                             ELSE notifications
    /\ (pc = "idle" /\ op'.name = "next")
         => IF notifications = <<>>
            THEN res' = "None" /\ notifications' = <<>>
            ELSE /\ res' = "Some"
                 /\ cur'.notification = Head(notifications)
                 /\ notifications' = Tail(notifications)
    /\ notifications' # notifications
         => (C17_Absorbs \/ (pc = "idle" /\ op'.name = "next"))

C17_QueueState ==
    /\ \A i, j \in DOMAIN notifications :
         notifications[i] = notifications[j] => i = j
    /\ \A i \in DOMAIN notifications, j \in DOMAIN toClient :
         toClient[j].k \in AsyncKinds => toClient[j].a # notifications[i]

C17_NotificationsFifo == []C17_QueueState /\ [][C17_QueueStep]_vars

\* C17, its case: two notifications were queued, next() has returned the
\* one that arrived first and the later one is still queued.
C17_Witness ==
    /\ pc = "return"
    /\ op.name = "next"
    /\ res = "Some"
    /\ Len(notifications) = 1
    /\ cur.notification # notifications[1]

\* C18: NoticeResponse, ParameterStatus and NotificationResponse are
\* absorbed by the read loop wherever they stand in the backend stream: the
\* step that takes one off the stream changes only the notification queue,
\* and no other step of the client consumes one or moves because of one, so
\* results, written messages and session state are those of the run
\* without these messages.
C18_AsyncAtHead ==
    pc \in ReadLabels /\ toClient # <<>> /\ Head(toClient).k \in AsyncKinds

C18_ClientMoves ==
    <<pc, kont, res, op, written, cur, desynchronized, finished, trans_depth,
      next_stmt_id, unknown_types, trans, stmts, copies, rows>>' #
    <<pc, kont, res, op, written, cur, desynchronized, finished, trans_depth,
      next_stmt_id, unknown_types, trans, stmts, copies, rows>>

C18_AbsorbStep ==
    /\ (C18_AsyncAtHead /\ toClient' = Tail(toClient))
         => (~C18_ClientMoves /\ bmode' = bmode)
    /\ (C18_AsyncAtHead /\ C18_ClientMoves)
         => \/ res' = "Io" /\ desynchronized' /\ toClient' = <<>>
            \/ pc' = "panicked"

C18_AsyncMessagesAreTransparent == [][C18_AbsorbStep]_vars

\* C18, its case: connect succeeded although every asynchronous message of
\* the run arrived in the middle of the startup exchange, one of them a
\* notification.
C18_Witness ==
    /\ pc = "return"
    /\ op.name = "connect"
    /\ res = "Ok"
    /\ asyncLeft = 0
    /\ toClient = <<>>
    /\ Len(notifications) = 1
    /\ ~desynchronized

\* C19: Terminate is written at most once per session, only by the finish
\* or the drop of the connection, on a session that is not desynchronized,
\* and no frame is written after it; the drop that follows an explicit
\* finish does not write it again.
C19_Terminate == Msg("Terminate", <<>>)

C19_Count(frames) == Cardinality({i \in DOMAIN frames : frames[i] = C19_Terminate})

C19_TerminateState ==
    /\ C19_Count(written) <= 1
    /\ C19_Count(written) = 1 =>
         /\ written[Len(written)] = C19_Terminate
         /\ op.name \in {"conn_finish", "conn_drop", "connect"}
         /\ op.name = "connect" => cur.saved \notin {"", "Ok"}
         /\ op.name = "conn_finish" => finished
         /\ pc \in {"conn_finish_ok", "conn_drop", "closed"}

C19_TerminateStep ==
    /\ C19_Count(written) = 1 => written' = written
    /\ (C19_Count(written) = 0 /\ C19_Count(written') = 1) =>
         /\ ~desynchronized
         /\ pc = "conn_finish_inner"
    /\ pc = "closed" => UNCHANGED vars

C19_TerminateOnce == []C19_TerminateState /\ [][C19_TerminateStep]_vars

\* C19, its case: an explicit finish wrote Terminate, the implicit drop has
\* run after it, and Terminate is the only frame of the operation.
C19_Witness ==
    /\ pc = "closed"
    /\ op.name = "conn_finish"
    /\ finished
    /\ res = "Ok"
    /\ written = <<C19_Terminate>>

\* C19, the other case: the drop of a desynchronized session wrote nothing.
C19_WitnessDesynchronized ==
    /\ pc = "closed"
    /\ op.name = "conn_drop"
    /\ op.desync0
    /\ written = <<>>

\* C20: a named statement the backend has parsed is closed before the
\* session ends whatever becomes of the operation that created it, unless
\* the session is desynchronized: when an operation that sent Parse and
\* reached the type-name lookup (so ParseComplete had arrived) has returned
\* on a synchronized session, the statement is owned by a handle whose drop
\* will close it, or Close('S', name) was already sent.
C20_Parses == {i \in DOMAIN written : written[i].k = "Parse"}

C20_LookedUp == \E i \in DOMAIN written :
                   written[i].k = "Query" /\ written[i].a = TypeLookup

C20_Owned(name) ==
    \/ \E s \in stmts : s.name = name
    \/ \E c \in copies : c.name = name

C20_CloseSent(name) ==
    \E j \in DOMAIN written :
       /\ written[j].k = "Close"
       /\ written[j].a[1] = "S"
       /\ written[j].a[2] = name

C20_ParsedStatementsAreClosed ==
    (pc = "return" /\ ~desynchronized /\ C20_LookedUp)
      => \A i \in C20_Parses :
            C20_Owned(written[i].a[1]) \/ C20_CloseSent(written[i].a[1])

\* C21 as stated: in copy-in execute any message other than BindComplete at
\* the first step and other than CopyInResponse at the second (an
\* ErrorResponse included) ends execute with a bad-response error,
\* desynchronized = true and no CopyData written.
C21_Expected ==
    IF pc = "copy_execute_bind" THEN "BindComplete" ELSE "CopyInResponse"

C21_Unexpected ==
    /\ pc \in {"copy_execute_bind", "copy_execute_response"}
    /\ toClient # <<>>
    /\ Head(toClient).k \notin AsyncKinds
    /\ Head(toClient).k # C21_Expected
    /\ toClient' = Tail(toClient)
    /\ bmode' = bmode

C21_NoCopyData == \A i \in DOMAIN written : written[i].k # "CopyData"

C21_Rejected ==
    /\ pc' = "return"
    /\ res' = "BadResponse"
    /\ desynchronized'
    /\ written' = written
    /\ C21_NoCopyData

C21_AnyOtherMessageStep == C21_Unexpected => C21_Rejected

C21_AnyOtherMessageIsBadResponse == [][C21_AnyOtherMessageStep]_vars

\* C21 as the code has it: an ErrorResponse in place of BindComplete is the
\* statement's error: execute waits for ReadyForQuery and returns the Db
\* error with the session synchronized.  Every other unexpected message at
\* either step, and an ErrorResponse in place of CopyInResponse, is a bad
\* response that desynchronizes the session.  No CopyData is written in
\* either case.
C21_BindError ==
    pc = "copy_execute_bind" /\ toClient # <<>> /\ Head(toClient).k = "ErrorResponse"

C21_OtherMessageStep ==
    C21_Unexpected =>
        IF C21_BindError
        THEN /\ pc' = "wait_for_ready"
             /\ kont' = <<TryRet("Db")>> \o kont
             /\ desynchronized' = desynchronized
             /\ written' = written
             /\ C21_NoCopyData
        ELSE C21_Rejected

C21_OtherMessageIsBadResponse == [][C21_OtherMessageStep]_vars

\* C21, its case: execute got something else than CopyInResponse after
\* BindComplete and returned the bad-response error.
C21_Witness ==
    /\ pc = "return"
    /\ op.name = "copy_execute"
    /\ res = "BadResponse"
    /\ desynchronized
    /\ Len(written) = 3
    /\ written[2].k = "Execute"
    /\ toClient # <<>>

\* C22: in copy-in execute a row with the wrong number of values makes the
\* client send CopyFail("Invalid column count") followed by Sync and abort:
\* no CopyData and no CopyDone is written after the CopyFail, the rest of
\* the input stays unread, and execute returns with the session
\* synchronized.
C22_IsCopyFail(m) == m.k = "CopyFail" /\ m.a = <<"Invalid column count">>

C22_CopyFails == {i \in DOMAIN written : C22_IsCopyFail(written[i])}

C22_AbortsAfterCopyFail ==
    op.name = "copy_execute" =>
      \A i \in C22_CopyFails :
         /\ \A j \in DOMAIN written :
               j > i => written[j].k \notin {"CopyData", "CopyDone"}
         /\ i < Len(written) => written[i + 1].k = "Sync"
         /\ (pc = "return" /\ res # "Io") => ~desynchronized /\ toClient = <<>>

\* C23: when a value fails to encode after CopyInResponse, the client sends
\* CopyFail before it returns the error; so whenever copy-in execute has
\* returned with desynchronized = false, the backend is out of copy-in
\* mode (CopyDone or CopyFail was sent) and nothing of the exchange is
\* unread.
C23_ToldToLeave == \E i \in DOMAIN written : written[i].k \in {"CopyDone", "CopyFail"}

C23_EncodingFailureSendsCopyFail ==
    (op.name = "copy_execute" /\ pc = "return" /\ ~desynchronized) =>
       /\ res = "WrongType" => C23_ToldToLeave
       /\ bmode # "copyin"
       /\ toClient = <<>>

\* C24: after a successful copy-in of rows r1..rn the payloads of the
\* CopyData frames, put end to end, are the 11-byte signature, flags 0,
\* extension length 0, then per row the i16 column count and per column
\* i32 -1 for NULL or i32 len and the len bytes, then the trailer i16 -1;
\* the trailer is in the last CopyData, which is followed by CopyDone and
\* Sync; the count returned is the one of the CommandComplete tag.
C24_Signature == <<80, 71, 67, 79, 80, 89, 10, 255, 13, 10, 0>>

C24_Column(v) ==
    IF v = "null" THEN <<255, 255, 255, 255>>
    ELSE <<0, 0, 0, Len(ValBytes)>> \o ValBytes

RECURSIVE C24_Columns(_)
C24_Columns(row) ==
    IF row = <<>> THEN <<>> ELSE C24_Column(Head(row)) \o C24_Columns(Tail(row))

RECURSIVE C24_Tuples(_)
C24_Tuples(input) ==
    IF input = <<>> THEN <<>>
    ELSE <<0, Len(Head(input))>> \o C24_Columns(Head(input)) \o C24_Tuples(Tail(input))

C24_Stream(input) ==
    C24_Signature \o <<0, 0, 0, 0>> \o <<0, 0, 0, 0>> \o C24_Tuples(input) \o <<255, 255>>

RECURSIVE C24_Payloads(_)
C24_Payloads(frames) ==
    IF frames = <<>> THEN <<>>
    ELSE (IF Head(frames).k = "CopyData" THEN Head(frames).a[1] ELSE <<>>)
         \o C24_Payloads(Tail(frames))

C24_Succeeded == pc = "return" /\ op.name = "copy_execute" /\ res = "Ok"

C24_StreamState ==
    C24_Succeeded =>
       /\ C24_Payloads(written) = C24_Stream(cur.input)
       /\ LET n == Len(written) IN
            /\ n >= 6
            /\ written[n].k = "Sync"
            /\ written[n - 1].k = "CopyDone"
            /\ written[n - 2].k = "CopyData"
            /\ LET last == written[n - 2].a[1] IN
                 SubSeq(last, Len(last) - 1, Len(last)) = <<255, 255>>
            /\ \A i \in 1..(n - 3) : written[i].k \notin {"CopyDone", "CopyFail"}

C24_CountStep ==
    /\ (pc = "copy_execute_complete" /\ pc' = "wait_for_ready"
          /\ Head(toClient).k = "CommandComplete")
         => cur'.num = (IF Head(toClient).a = <<>> THEN 0 ELSE Head(toClient).a[1])
    /\ (op.name = "copy_execute" /\ pc = "wait_for_ready" /\ pc' = "return")
         => cur'.num = cur.num

C24_CopyStream == []C24_StreamState /\ [][C24_CountStep]_vars

\* C24, its case: two rows, one with a value and one NULL, were copied and
\* the backend's tag counted 2.
C24_Witness ==
    /\ C24_Succeeded
    /\ cur.input = <<(<<"bytes">>), (<<"null">>)>>
    /\ cur.num = 2
    /\ Len(written) = 8

\* C25: when the backend answers an execute, a row fetch or a simple query
\* with CopyInResponse, the client sends CopyFail followed by Sync, the
\* operation returns an error (the bad-response error for execute), and the
\* session is left synchronized with no answer of the exchange unread.
C25_Rejections ==
    {i \in DOMAIN written :
        /\ written[i].k = "CopyFail"
        /\ written[i].a = <<"COPY queries cannot be directly executed">>}

C25_RejectsServerCopyIn ==
    (pc = "return" /\ C25_Rejections # {} /\ res # "Io") =>
       /\ \A i \in C25_Rejections : i < Len(written) /\ written[i + 1].k = "Sync"
       /\ res # "Ok"
       /\ op.name = "execute" => res = "BadResponse"
       /\ ~desynchronized
       /\ toClient = <<>>

\* C26 as stated: the Startup message carries client_encoding=UTF8,
\* TimeZone=GMT and user=<user>, then database exactly when one was given,
\* and the caller's options after all of these.
C26_Fixed ==
    <<(<<"client_encoding", "UTF8">>), (<<"TimeZone", "GMT">>), (<<"user", "u">>)>>
    \o (IF cur.database # <<>> THEN <<(<<"database", cur.database[1]>>)>> ELSE <<>>)

C26_Startup ==
    op.name = "connect" /\ written # <<>> /\ written[1].k = "Startup"

C26_CallerOptionsLast ==
    C26_Startup => written[1].a = C26_Fixed \o cur.options

\* C26 as the code has it: the caller's options come first, in the order
\* given; client_encoding=UTF8, TimeZone=GMT and user=<user> follow in this
\* order, and database comes last, exactly when one was given.
C26_CallerOptionsFirst ==
    C26_Startup => written[1].a = cur.options \o C26_Fixed

\* C26, its case: connect with a database and an option of the caller's
\* has written its Startup message.
C26_Witness ==
    /\ C26_Startup
    /\ cur.database = <<"db">>
    /\ cur.options # <<>>
    /\ Len(written[1].a) = 5

\* C27: connect handles exactly one authentication request after Startup.
\* AuthenticationOk sends nothing; the cleartext and MD5 requests send one
\* PasswordMessage and then need AuthenticationOk, or fail with
\* MissingPassword and send nothing when no password was given; KerberosV5,
\* SCMCredential, GSS and SSPI fail with UnsupportedAuthentication and send
\* nothing; an ErrorResponse at any step of the startup fails connect with
\* the Db error; connect returns a session only after ReadyForQuery.
C27_Passwords == {i \in DOMAIN written : written[i].k = "PasswordMessage"}

C27_Failed(r) == pc' = "connect_end" /\ res' = r /\ written' = written

C27_TransportFailed == pc' = "connect_end" /\ res' = "Io" /\ desynchronized'

C27_Request ==
    LET m == Head(toClient) IN
    CASE m.k = "AuthenticationOk" ->
           pc' = "connect_loop" /\ written' = written
      [] m.k \in {"AuthenticationCleartextPassword", "AuthenticationMD5Password"} ->
           IF cur.password
           THEN /\ pc' = "handle_auth_ok"
                /\ written' = written \o PasswordMessage(m)
                /\ (m.k = "AuthenticationCleartextPassword") = (written'[2].a = <<"password">>)
           ELSE C27_Failed("MissingPassword")
      [] m.k \in {"AuthenticationKerberosV5", "AuthenticationSCMCredential",
                  "AuthenticationGSS", "AuthenticationSSPI"} ->
           C27_Failed("UnsupportedAuthentication")
      [] m.k = "ErrorResponse" -> C27_Failed("Db")
      [] OTHER -> C27_Failed("BadResponse")

C27_PasswordAnswer ==
    LET m == Head(toClient) IN
    CASE m.k = "AuthenticationOk" -> pc' = "connect_loop" /\ written' = written
      [] m.k = "ErrorResponse" -> C27_Failed("Db")
      [] OTHER -> C27_Failed("BadResponse")

C27_Startup ==
    LET m == Head(toClient) IN
    CASE m.k = "ReadyForQuery" -> pc' = "connect_end" /\ res' = "Ok" /\ written' = written
      [] m.k = "BackendKeyData" -> pc' = "connect_loop" /\ written' = written
      [] m.k = "ErrorResponse" -> C27_Failed("Db")
      [] OTHER -> C27_Failed("BadResponse")

C27_AuthStep ==
    /\ (pc = "handle_auth" /\ pc' # pc) => C27_TransportFailed \/ C27_Request
    /\ (pc = "handle_auth_ok" /\ pc' # pc) => C27_TransportFailed \/ C27_PasswordAnswer
    /\ (pc = "connect_loop" /\ op.name = "connect" /\ <<pc, toClient>>' # <<pc, toClient>>)
         => C27_TransportFailed \/ C27_Startup
    /\ (pc' = "handle_auth" /\ pc # pc')
         => pc = "unconnected" /\ written'[Len(written')].k = "Startup"
    /\ (pc' = "handle_auth_ok" /\ pc # pc') => pc = "handle_auth"

C27_AuthState ==
    op.name = "connect" =>
       /\ Cardinality(C27_Passwords) <= 1
       /\ C27_Passwords # {} => cur.password /\ C27_Passwords = {2}
       /\ pc = "return" => res = "Ok"
       /\ (pc = "closed" /\ cur.saved \in {"MissingPassword", "UnsupportedAuthentication"})
            => C27_Passwords = {}

C27_Authentication == []C27_AuthState /\ [][C27_AuthStep]_vars

\* C27, its case: the MD5 request was answered with one PasswordMessage,
\* AuthenticationOk and ReadyForQuery followed, and connect returned the
\* session.
C27_Witness ==
    /\ op.name = "connect"
    /\ pc = "return"
    /\ res = "Ok"
    /\ Len(written) = 2
    /\ written[2].k = "PasswordMessage"
    /\ written[2].a[1] = "md5"

\* C27, the other cases: no password for a request that needs one, and a
\* request the client cannot answer.
C27_WitnessMissingPassword ==
    /\ op.name = "connect"
    /\ pc = "closed"
    /\ cur.saved = "MissingPassword"
    /\ Len(written) = 2
    /\ written[2].k = "Terminate"

C27_WitnessUnsupported ==
    /\ op.name = "connect"
    /\ pc = "closed"
    /\ cur.saved = "UnsupportedAuthentication"

\* C28: when the backend requests AuthenticationSASL during startup, the
\* client answers with SASLInitialResponse and goes on with the SCRAM
\* exchange; the request does not fail connect as an unknown or
\* unsupported message.
C28_SaslRequested ==
    /\ pc = "handle_auth"
    /\ toClient # <<>>
    /\ Head(toClient).k = "AuthenticationSASL"

C28_SaslStep ==
    (C28_SaslRequested /\ toClient' # toClient /\ bmode' # "closed") =>
       /\ pc' # "connect_end"
       /\ Len(written') = Len(written) + 1
       /\ written'[Len(written')].k = "SASLInitialResponse"

C28_SaslIsAnswered == [][C28_SaslStep]_vars

\* C29: cancel_query opens a transport of its own and writes exactly one
\* frame on it, CancelRequest with code 80877102 and the process id and
\* secret key it was given, then flushes; it writes no Startup message and
\* reads nothing once the transport is open; what it reports is Ok or a
\* failure to reach the server (bad parameters, connect, TLS negotiation,
\* stream error), never an answer of the backend; and no step of it changes
\* the session, the backend's view of the session or the unread answers.
C29_CancelRequest ==
    Msg("CancelRequest", <<CANCEL_CODE, cancel.process_id, cancel.secret_key>>)

C29_Frames == cancel.raw \o cancel.socket \o cancel.flushed

C29_CancelState ==
    /\ cancel.socket \in {<<>>, <<C29_CancelRequest>>}
    /\ cancel.flushed \in {<<>>, cancel.socket}
    /\ cancel.pc = "flush" => cancel.socket = <<C29_CancelRequest>>
    /\ cancel.res = "Ok" => cancel.flushed = <<C29_CancelRequest>>
    /\ \A i \in DOMAIN C29_Frames : C29_Frames[i].k # "Startup"
    /\ cancel.raw # <<>> => cancel.ssl # "NoSsl"
    /\ cancel.res \in {"", "Ok", "InvalidUrl", "SocketError", "NoSslSupport",
                       "SslError", "PgConnectStreamError"}

C29_CancelStep ==
    cancel' # cancel =>
      /\ UNCHANGED connVars
      /\ cancel.pc \in {"write_message", "flush"} =>
           /\ cancel'.read = cancel.read
           /\ cancel'.raw = cancel.raw
      /\ cancel.pc \in {"initialize_stream", "write_message", "flush"} =>
           /\ cancel'.process_id = cancel.process_id
           /\ cancel'.secret_key = cancel.secret_key

C29_CancelWritesOneFrame == [](C29_CancelState) /\ [][C29_CancelStep]_vars

\* A query is in progress on the session, its answer unread, and
\* cancel_query has returned Ok over a TLS transport.
C29_Witness ==
    /\ cancel.res = "Ok"
    /\ cancel.ssl = "RequireSsl"
    /\ cancel.flushed = <<C29_CancelRequest>>
    /\ op.name = "batch_execute"
    /\ pc \in ReadLabels
    /\ toClient # <<>>

\* C30: every frontend frame is written as an optional type byte, then a
\* big-endian i32 length equal to the payload length plus 4 (it counts
\* itself, not the type byte), then the payload; StartupMessage, SslRequest
\* and CancelRequest have no type byte and every other frontend message has
\* a type byte of its own. So a reader that knows which frames are typed
\* and cuts the stream by the length fields gets the frames back.
C30_Untyped == {"StartupMessage", "SslRequest", "CancelRequest"}

RECURSIVE C30_read_be(_)
C30_read_be(b) ==
    IF b = <<>> THEN 0 ELSE C30_read_be(SubSeq(b, 1, Len(b) - 1)) * 256 + b[Len(b)]

C30_NoFrame == [ident |-> <<>>, len |-> -1, payload |-> <<>>]

RECURSIVE C30_read_frames(_, _)
C30_read_frames(stream, typed) ==
    IF typed = <<>>
      THEN IF stream = <<>> THEN <<>> ELSE <<C30_NoFrame>>
      ELSE LET h == IF Head(typed) THEN 1 ELSE 0
           IN  IF Len(stream) < h + 4 THEN <<C30_NoFrame>>
               ELSE LET len == C30_read_be(SubSeq(stream, h + 1, h + 4))
                    IN  IF len < 4 \/ Len(stream) < h + len THEN <<C30_NoFrame>>
                        ELSE <<[ident |-> SubSeq(stream, 1, h), len |-> len,
                                payload |-> SubSeq(stream, h + 5, h + len)]>>
                             \o C30_read_frames(
                                  SubSeq(stream, h + len + 1, Len(stream)),
                                  Tail(typed))

C30_OwnTypeByte ==
    \A m1, m2 \in FrontendMessage :
       /\ message_ident(m1) = None <=> m1.k \in C30_Untyped
       /\ message_ident(m1) # None /\ message_ident(m1) = message_ident(m2)
            => m1.k = m2.k

C30_FramesAreLengthPrefixed ==
    /\ C30_OwnTypeByte
    /\ res = "" =>
         C30_read_frames(cur.buf,
                         [i \in DOMAIN written |-> written[i].k \notin C30_Untyped])
           = [i \in DOMAIN written |->
                [ident |-> message_ident(written[i]),
                 len |-> Len(message_buf(written[i])) + 4,
                 payload |-> message_buf(written[i])]]

\* A startup message and then a CopyData whose payload looks like a length
\* field have been written to the stream.
C30_Witness ==
    /\ res = ""
    /\ Len(written) = 2
    /\ written[1] \in FrontendMessage
    /\ written[1].k = "StartupMessage"
    /\ written[1].parameters # <<>>
    /\ written[2].k = "CopyData"
    /\ written[2].data = <<0, 0, 0, 9>>
    /\ Len(cur.buf) = 4 + 4 + 5 + 1 + 1 + 4 + 4

\* C31: read_message reads one type byte, the 4-byte length and then
\* exactly length - 4 payload bytes, for every value of the length field:
\* after a frame that decodes, the stream stands at the next frame's type
\* byte; an unknown type byte is an I/O error; and a length field smaller
\* than 4 is an error, never a request for length - 4 modulo 2^w bytes.
C31_Rest == SubSeq(cur.buf, cur.pos + 1, Len(cur.buf))

C31_Length == read_be(SubSeq(C31_Rest, 2, 5))

C31_ReadStep ==
    (cur'.pos # cur.pos /\ Len(C31_Rest) >= 5) =>
       /\ res' = "Ok" =>
            /\ cur'.num = C31_Length - 4
            /\ cur'.pos = cur.pos + 1 + C31_Length
       /\ C31_Rest[1] \notin {49, 75, 90} => res' = "Io" \/ pc' = "panicked"
       /\ C31_Length < 4 =>
            /\ res' = "Io"
            /\ pc' # "panicked"
            /\ cur'.num <= C31_Length

C31_ReadsLengthMinusFour == [][C31_ReadStep]_vars

\* The same with the short length fields left out: what the decoder does do.
C31_ReadStepFromFour ==
    (cur'.pos # cur.pos /\ Len(C31_Rest) >= 5 /\ C31_Length >= 4) =>
       /\ res' = "Ok" =>
            /\ cur'.num = C31_Length - 4
            /\ cur'.pos = cur.pos + 1 + C31_Length
       /\ C31_Rest[1] \notin {49, 75, 90} => res' = "Io"
       /\ pc' # "panicked"

C31_ReadsLengthMinusFourFromFour == [][C31_ReadStepFromFour]_vars

\* C32: PostgresStatement::execute returns the number of rows modified, as
\* parsed from the CommandComplete tag, and 0 when the statement modifies no
\* rows (a SELECT that returns rows) or the query is empty.
C32_Returned == pc = "return" /\ op.name = "stmt_execute" /\ res = "Ok"

C32_Modifies == Len(cur.tag) = 2 /\ cur.tag[1] = "UPDATE"

C32_ExecuteCountsModifiedRows ==
    C32_Returned =>
       cur.num = IF C32_Modifies THEN parse_update_count(cur.tag) ELSE 0

\* What the code returns: the number at the end of the tag, whatever the
\* command, and 0 when the tag has none or the query was empty.
C32_ExecuteReturnsTagCount ==
    C32_Returned => cur.num = parse_update_count(cur.tag)

\* C33: decoding a composite value into an n-field record succeeds only if
\* the value has exactly n fields and the type of every field is the type
\* of the target's field; fewer fields, more fields or one field of another
\* type end in WrongType; and on success every field value, NULL for an
\* optional field included, stands at its position.
C33_Decoded == cur.buf # <<>> /\ res # ""

C33_Target == cur.data

C33_TypesMatch ==
    /\ Len(cur.input) = Len(C33_Target)
    /\ \A i \in DOMAIN cur.input : cur.input[i].oid = C33_Target[i].oid

\* No other fault in the value: it has no NULL where the record has a
\* field that is not optional.
C33_NullsFit ==
    \A i \in DOMAIN cur.input :
       (i <= Len(C33_Target) /\ cur.input[i].val = None) => C33_Target[i].optional

C33_WitnessFewer ==
    /\ C33_Decoded
    /\ res = "WrongType"
    /\ Len(cur.input) = 2
    /\ Len(C33_Target) = 3
    /\ cur.input[1].oid = 25
    /\ cur.input[2].oid = 23

\* ('foobar', 100, 15.5) was refused as GenericItem<String, i32>.
C33_WitnessMore ==
    /\ C33_Decoded
    /\ res = "WrongType"
    /\ Len(cur.input) = 3
    /\ Len(C33_Target) = 2
    /\ cur.input[1].oid = 25
    /\ cur.input[2].oid = 23

\* C34: a portal does not outlive its transaction. Every row stream made
\* by lazy_query on a transaction handle is gone before the handle issues
\* its COMMIT / ROLLBACK / RELEASE / ROLLBACK TO, and a stream goes only
\* through finish_inner, which sends Close('P', portal) unless the session
\* is desynchronized; no Execute is sent for a portal whose handle is gone;
\* and lazy_query with a statement of another connection returns
\* WrongConnection and writes nothing.
C34_Close(portal) == Msg("Close", <<"P", portal>>)

C34_ExecutesPortal(frames) ==
    \E i \in DOMAIN frames :
       /\ frames[i].k = "Execute"
       /\ frames[i].a[1] # <<>>

C34_PortalState ==
    /\ \A r \in rows : r.lazy <= Len(trans)
    /\ cur.lazy <= Len(trans)
    /\ (pc = "return" /\ res = "WrongConnection") =>
          /\ op.name = "lazy_query"
          /\ written = <<>>
          /\ toClient = <<>> \/ op.unread0 > 0

C34_PortalStep ==
    /\ Len(trans') < Len(trans) => \A r \in rows : r.lazy < Len(trans)
    /\ \A r \in rows \ rows' :
         r.lazy # 0 =>
           \/ pc' = "rows_finish_inner" /\ cur'.portal = r.name
           \/ op'.name = "try_next" /\ cur'.portal = r.name /\ cur'.lazy = r.lazy
    /\ (op.name = "try_next" /\ cur.lazy # 0 /\ pc # "return" /\ pc' = "return") =>
          \E r \in rows' : r.name = cur.portal /\ r.lazy = cur.lazy
    /\ (pc = "lazy_query_end" /\ res # "Ok" /\ pc' # pc) => pc' = "rows_finish_inner"
    /\ (pc = "rows_finish_inner" /\ pc' # pc) =>
          \/ desynchronized
          \/ desynchronized'
          \/ \E i \in DOMAIN written' : i > Len(written) /\ written'[i] = C34_Close(cur.portal)
    /\ (Len(written') > Len(written)
        /\ C34_ExecutesPortal(SubSeq(written', Len(written) + 1, Len(written')))
        /\ cur.lazy # 0) =>
          /\ cur.lazy <= Len(trans)
          /\ \A i \in (Len(written) + 1)..Len(written') :
               written'[i].k = "Execute" => written'[i].a[1] = cur'.portal

C34_PortalEndsBeforeTransaction == [](C34_PortalState) /\ [][C34_PortalStep]_vars

\* A lazy row stream of the innermost transaction has been finished with
\* its Close sent, and the transaction is still open.
C34_Witness ==
    /\ pc = "return"
    /\ op.name = "rows_finish"
    /\ op.via > 0
    /\ op.via = Len(trans)
    /\ res = "Ok"
    /\ Len(written) = 2
    /\ written[1].k = "Close"
    /\ written[1].a[1] = "P"

\* lazy_query was refused for a statement of another connection.
C34_WitnessWrongConnection ==
    /\ pc = "return"
    /\ res = "WrongConnection"
    /\ op.via > 0

\* C35: prepare_copy_in runs its exchanges in this order: Parse + Describe
\* of the SELECT, Close of that statement, Parse + Describe of the COPY
\* statement; the statement returned has one column type for each entry of
\* the SELECT's RowDescription; and when one of the three steps fails no
\* copy-in statement is returned and no statement the backend has parsed is
\* left open. A statement counts as parsed here once the client went on to
\* close it or to look up one of its types, which it does only after the
\* whole answer to Parse + Describe + Sync arrived.
C35_Returned == pc = "return" /\ op.name = "prepare_copy_in"

C35_Kind(k) == {i \in DOMAIN written : written[i].k = k}

C35_Order ==
    /\ Cardinality(C35_Kind("Parse")) <= 2
    /\ Cardinality(C35_Kind("Close")) <= 1
    /\ \A i \in C35_Kind("Parse") :
         /\ i < Len(written) => written[i + 1].k = "Describe"
         /\ written[i].a[2] = IF i = 1 THEN <<"SELECT columns">>
                              ELSE <<"COPY FROM STDIN">>
    /\ \A j \in C35_Kind("Close") :
         /\ written[1].k = "Parse"
         /\ written[j].a = <<"S", written[1].a[1]>>
    /\ \A i \in C35_Kind("Parse") :
         i > 1 => \E j \in C35_Kind("Close") : j < i

C35_Parsed(i) ==
    /\ i \in C35_Kind("Parse")
    /\ \E j \in DOMAIN written :
         /\ j > i
         /\ \A l \in (i + 1)..j : written[l].k # "Parse"
         /\ \/ written[j].k = "Close"
            \/ written[j].k = "Query" /\ written[j].a = TypeLookup

C35_Closed(i) ==
    \E j \in C35_Kind("Close") : j > i /\ written[j].a = <<"S", written[i].a[1]>>

C35_State ==
    C35_Returned =>
       /\ C35_Order
       /\ res = "Ok" => \E c \in copies :
                          c.name = cur.name /\ c.column_types = cur.columns
       /\ (res # "Ok" /\ ~desynchronized) =>
            /\ \A c \in copies : c.name # cur.name
            /\ \A i \in DOMAIN written : C35_Parsed(i) => C35_Closed(i)

C35_Step ==
    (pc = "prepare_copy_in_close" /\ pc' # pc) => cur'.columns = VecLen(cur.rdesc)

C35_PrepareCopyIn == [](C35_State) /\ [][C35_Step]_vars

\* The part that holds: the order, the column types, and no handle after a
\* failure.
C35_StateWithoutLeak ==
    C35_Returned =>
       /\ C35_Order
       /\ res = "Ok" => \E c \in copies :
                          c.name = cur.name /\ c.column_types = cur.columns
       /\ res # "Ok" => \A c \in copies : c.name # cur.name

C35_PrepareCopyInOrder == [](C35_StateWithoutLeak) /\ [][C35_Step]_vars

----------------------------------------------------------------------------
(* Server-side names                                                       *)

NamesMaxStmtId   == 2   \* SpecNames: statement names explored
NamesMaxPortalId == 2   \* SpecNames: portals explored per statement

DecimalDigits == <<"0", "1", "2", "3", "4", "5", "6", "7", "8", "9">>

\* format!("{}", n) of an unsigned integer: its decimal digits.
RECURSIVE format_uint(_)
format_uint(n) ==
    IF n < 10 THEN <<DecimalDigits[n + 1]>>
              ELSE format_uint(n \div 10) \o <<DecimalDigits[(n % 10) + 1]>>

\* The text of a name: format!("s{}", id) of a statement,
\* format!("{}p{}", name, id) of a portal, "" of the unnamed portal.
format_name(name) ==
    IF Len(name) = 0 THEN <<>>
    ELSE IF Len(name) = 2 THEN <<"s">> \o format_uint(name[2])
    ELSE <<"s">> \o format_uint(name[1][2]) \o <<"p">> \o format_uint(name[3])

\* A session on which statements are prepared, queried and finished.
InitNames ==
    /\ Fresh
    /\ asyncLeft = 0
    /\ rogueLeft = 0
    /\ cap = [depth |-> 0, stmts |-> NamesMaxStmtId, rogue |-> 0,
              portals |-> NamesMaxPortalId, rows |-> 1, cancel |-> 0]

NextNames ==
    \/ Returned
    \/ Connect
    \/ Reading
    \/ SimpleQuery
    \/ PostgresConnection_prepare
    \/ raw_prepare
    \/ raw_prepare_parse
    \/ raw_prepare_params
    \/ raw_prepare_rows
    \/ set_type_names_params
    \/ set_type_names_result
    \/ get_type_name_ok
    \/ raw_prepare_ok
    \/ prepare_ok
    \/ close_statement
    \/ close_statement_loop
    \/ PostgresStatement_finish_inner
    \/ \E s \in stmts : PostgresStatement_finish(s)
    \/ inner_execute
    \/ inner_execute_bind
    \/ lazy_query
    \/ lazy_query_rows
    \/ lazy_query_end
    \/ read_rows
    \/ PostgresRows_finish_inner
    \/ rows_finish_loop
    \/ \E s \in stmts, n \in 0..1 : PostgresStatement_query(s, n)
    \/ \E r \in rows : PostgresRows_finish(r)

SpecNames == InitNames /\ [][NextNames]_vars

\* The frames of a kind among frames.
C36_Frames(frames, kind) == {i \in DOMAIN frames : frames[i].k = kind}

\* The frames the step has just written.
C36_New == IF Len(written') > Len(written)
             THEN SubSeq(written', Len(written) + 1, Len(written'))
             ELSE <<>>

\* Every name in use or on the wire was drawn below the counter it came
\* from, and the names alive at a time are pairwise different as texts.
C36_NamesState ==
    /\ \A s \in stmts : s.name[2] < next_stmt_id
    /\ \A s, t \in stmts : s # t => format_name(s.name) # format_name(t.name)
    /\ \A i \in C36_Frames(written, "Parse") : written[i].a[1][2] < next_stmt_id
    /\ \A i, j \in C36_Frames(written, "Parse") :
         i # j => format_name(written[i].a[1]) # format_name(written[j].a[1])
    /\ \A r \in rows :
         \E s \in stmts : r.name[1] = s.name /\ r.name[3] < s.next_portal_id
    /\ \A r, q \in rows : r # q => format_name(r.name) # format_name(q.name)
    /\ \A i \in C36_Frames(written, "Bind") :
         Len(written[i].a[1]) # 0 =>
           \E s \in stmts : /\ written[i].a[1][1] = s.name
                            /\ written[i].a[1][3] < s.next_portal_id

\* The counters only grow; raw_prepare and lazy_query take the counter's
\* value as the name and step the counter whatever happens next; a name put
\* on the wire in Parse or Bind is the one just taken, so it is above every
\* name taken before.
C36_NamesStep ==
    /\ next_stmt_id' >= next_stmt_id
    /\ \A s \in stmts, t \in stmts' :
         s.name = t.name => t.next_portal_id >= s.next_portal_id
    /\ \A t \in stmts' :
         (\A s \in stmts : s.name # t.name) =>
            /\ t.name[2] >= op.stmt0
            /\ t.next_portal_id = 0
    /\ (pc = "raw_prepare" /\ pc' \notin {pc, "panicked"}) =>
          /\ next_stmt_id' = next_stmt_id + 1
          /\ cur'.name = StmtName(next_stmt_id)
    /\ \A i \in C36_Frames(C36_New, "Parse") :
          /\ C36_New[i].a[1] = StmtName(next_stmt_id)
          /\ next_stmt_id' = next_stmt_id + 1
    /\ (pc = "lazy_query" /\ pc' \notin {pc, "panicked"}) =>
          \E s \in stmts, t \in stmts' :
             /\ s.name = cur.name
             /\ t.name = cur.name
             /\ t.next_portal_id = s.next_portal_id + 1
             /\ cur'.portal = PortalName(s.name, s.next_portal_id)
    /\ \A i \in C36_Frames(C36_New, "Bind") :
          Len(C36_New[i].a[1]) # 0 =>
            \E s \in stmts :
               /\ s.name = C36_New[i].a[2]
               /\ C36_New[i].a[1] = PortalName(s.name, s.next_portal_id - 1)

\* C36: server-side names are never reused within a session: each call of
\* raw_prepare, successful or not, takes a fresh statement name s{k} from a
\* strictly increasing counter, and each lazy_query / query on a statement,
\* successful or not, takes a fresh portal name {statement_name}p{j} from
\* that statement's strictly increasing counter, so no two statements and no
\* two portals created on one session share a name.
C36_NamesAreFresh == [](C36_NamesState) /\ [][C36_NamesStep]_vars

\* The second portal of the second statement of a session is on the wire.
C36_Witness ==
    /\ op.name = "query"
    /\ next_stmt_id = 2
    /\ \E i \in C36_Frames(written, "Bind") :
         format_name(written[i].a[1]) = <<"s", "1", "p", "1">>

----------------------------------------------------------------------------
(* tokio-postgres: Transaction                                             *)
(* The task that owns the Client runs one future at a time.  trans holds   *)
(* the Transaction values alive, outermost first: [depth, done, id], id the *)
(* position in written of the statement that opened it.  written is the    *)
(* log of the requests handed to the connection: [k, a, by, end], a the    *)
(* statement text, by the handle it was sent for, end what the future that *)
(* sent it saw: "Ok", "Err", "pending" (still awaited), "abandoned" (the    *)
(* future was dropped first) or "unawaited" (sent from Drop).              *)

MaxBegun == 3   \* SpecTransaction: BEGIN and SAVEPOINT statements sent per run

TransactionLabels ==
    {"task", "task_transaction", "task_commit", "task_rollback", "task_finish"}

\* What an action of the task leaves alone.
taskVars == <<kont, sessVars, stmts, copies, rows, netVars, envVars>>

Request(text, by, end) == [k |-> "Query", a |-> text, by |-> by, end |-> end]

\* The statements that open a transaction or a savepoint.
Begun == {i \in DOMAIN written : written[i].a[1] \in {"BEGIN", "SAVEPOINT sp"}}

\* The end the future awaiting the last request saw.
Answered(end) == [written EXCEPT ![Len(written)].end = end]

\* if self.depth == 0 { "COMMIT" } else { format!("RELEASE sp{}", self.depth) }
commit_query(depth) ==
    IF depth = 0 THEN <<"COMMIT">> ELSE <<"RELEASE sp">> \o format_uint(depth)

\* A variant that names the savepoint one level further in.
rollback_query_inner(depth) ==
    IF depth = 0 THEN <<"ROLLBACK">> ELSE <<"ROLLBACK TO sp">> \o format_uint(depth + 1)

\* if self.depth == 0 { "ROLLBACK" } else { format!("ROLLBACK TO sp{}", self.depth) }
rollback_query(depth) ==
    IF depth = 0 THEN <<"ROLLBACK">> ELSE <<"ROLLBACK TO sp">> \o format_uint(depth)

\* format!("SAVEPOINT sp{}", depth)
savepoint_query(depth) == <<"SAVEPOINT sp">> \o format_uint(depth)

\* Drop for Transaction: nothing when done, else the rollback statement is
\* handed to the connection and nobody waits for the answer.
Transaction_drop_sends(self) ==
    IF self.done THEN <<>>
    ELSE <<Request(rollback_query(self.depth), self.id, "unawaited")>>

\* Client::transaction: BEGIN is handed to the connection and awaited.
Client_transaction ==
    /\ pc = "task"
    /\ trans = <<>>
    /\ Cardinality(Begun) < MaxBegun
    /\ written' = Append(written, Request(<<"BEGIN">>, Len(written) + 1, "pending"))
    /\ cur' = [NoLocals EXCEPT !.depth = 0]
    /\ op' = [NoOp EXCEPT !.name = "transaction"]
    /\ pc' = "task_transaction"
    /\ res' = ""
    /\ UNCHANGED <<trans, taskVars>>

\* Transaction::transaction of the innermost handle: SAVEPOINT sp{depth+1}
\* is handed to the connection and awaited.
Transaction_transaction ==
    /\ pc = "task"
    /\ trans # <<>>
    /\ Cardinality(Begun) < MaxBegun
    /\ LET self == trans[Len(trans)]
           depth == self.depth + 1
       IN  /\ written' = Append(written, Request(savepoint_query(depth),
                                                 Len(written) + 1, "pending"))
           /\ cur' = [NoLocals EXCEPT !.depth = depth]
           /\ op' = [NoOp EXCEPT !.name = "transaction", !.via = self.id]
    /\ pc' = "task_transaction"
    /\ res' = ""
    /\ UNCHANGED <<trans, taskVars>>

\* batch_execute(..).await? of BEGIN / SAVEPOINT has its answer: Ok builds
\* the Transaction, an error is returned by `?`.
transaction_end(ok) ==
    /\ pc = "task_transaction"
    /\ written' = Answered(IF ok THEN "Ok" ELSE "Err")
    /\ trans' = IF ok THEN Append(trans, [depth |-> cur.depth, done |-> FALSE,
                                          id |-> Len(written)])
                      ELSE trans
    /\ res' = IF ok THEN "Ok" ELSE "Err"
    /\ pc' = "task"
    /\ cur' = NoLocals
    /\ UNCHANGED <<op, taskVars>>

\* The future of transaction() is dropped while it awaits the answer.
transaction_abandon ==
    /\ pc = "task_transaction"
    /\ written' = Answered("abandoned")
    /\ res' = ""
    /\ pc' = "task"
    /\ cur' = NoLocals
    /\ UNCHANGED <<op, trans, taskVars>>

\* Transaction::commit / rollback is called on the innermost handle: the
\* future takes the handle and runs nothing before it is first polled.
Transaction_finish(name) ==
    /\ pc = "task"
    /\ trans # <<>>
    /\ op' = [NoOp EXCEPT !.name = name, !.via = trans[Len(trans)].id]
    /\ pc' = IF name = "commit" THEN "task_commit" ELSE "task_rollback"
    /\ res' = ""
    /\ UNCHANGED <<written, cur, trans, taskVars>>

\* A variant of the first poll below that leaves done unset.
finish_poll_not_done ==
    /\ pc \in {"task_commit", "task_rollback"}
    /\ LET self == trans[Len(trans)]
           query == IF pc = "task_commit" THEN commit_query(self.depth)
                                          ELSE rollback_query(self.depth)
       IN  written' = Append(written, Request(query, self.id, "pending"))
    /\ pc' = "task_finish"
    /\ UNCHANGED <<res, op, cur, trans, taskVars>>

\* The first poll of commit / rollback: self.done = true, the statement is
\* built from self.depth and handed to the connection.
finish_poll ==
    /\ pc \in {"task_commit", "task_rollback"}
    /\ LET self == trans[Len(trans)]
           query == IF pc = "task_commit" THEN commit_query(self.depth)
                                          ELSE rollback_query(self.depth)
       IN  /\ trans' = [trans EXCEPT ![Len(trans)].done = TRUE]
           /\ written' = Append(written, Request(query, self.id, "pending"))
    /\ pc' = "task_finish"
    /\ UNCHANGED <<res, op, cur, taskVars>>

\* The answer to the statement of commit / rollback: the result is
\* returned and self is dropped at the end of the function.
finish_end(ok) ==
    /\ pc = "task_finish"
    /\ written' = Answered(IF ok THEN "Ok" ELSE "Err")
                    \o Transaction_drop_sends(trans[Len(trans)])
    /\ trans' = SubSeq(trans, 1, Len(trans) - 1)
    /\ res' = IF ok THEN "Ok" ELSE "Err"
    /\ pc' = "task"
    /\ UNCHANGED <<op, cur, taskVars>>

\* The future of commit / rollback is dropped, before its first poll or
\* while it awaits the answer: the handle it holds is dropped with it.
finish_abandon ==
    /\ pc \in {"task_commit", "task_rollback", "task_finish"}
    /\ written' = (IF pc = "task_finish" THEN Answered("abandoned") ELSE written)
                    \o Transaction_drop_sends(trans[Len(trans)])
    /\ trans' = SubSeq(trans, 1, Len(trans) - 1)
    /\ res' = ""
    /\ pc' = "task"
    /\ UNCHANGED <<op, cur, taskVars>>

\* The innermost handle goes out of scope.
Transaction_drop ==
    /\ pc = "task"
    /\ trans # <<>>
    /\ written' = written \o Transaction_drop_sends(trans[Len(trans)])
    /\ trans' = SubSeq(trans, 1, Len(trans) - 1)
    /\ op' = [NoOp EXCEPT !.name = "drop", !.via = trans[Len(trans)].id]
    /\ res' = ""
    /\ UNCHANGED <<pc, cur, taskVars>>

\* A connected Client with no transaction open.
InitTransaction ==
    /\ pc = "task"
    /\ kont = <<>>
    /\ res = ""
    /\ op = NoOp
    /\ written = <<>>
    /\ cur = NoLocals
    /\ desynchronized = FALSE
    /\ finished = FALSE
    /\ trans_depth = 0
    /\ next_stmt_id = 0
    /\ notifications = <<>>
    /\ unknown_types = {}
    /\ trans = <<>>
    /\ stmts = {}
    /\ copies = {}
    /\ rows = {}
    /\ bmode = "idle"
    /\ toClient = <<>>
    /\ asyncLeft = 0
    /\ rogueLeft = 0
    /\ cancel = NoCancel
    /\ debug_assertions = "unknown"
    /\ cap = [depth |-> 0, stmts |-> 0, rogue |-> 0,
              portals |-> 0, rows |-> 0, cancel |-> 0]

NextTransaction ==
    \/ Client_transaction
    \/ Transaction_transaction
    \/ \E ok \in BOOLEAN : transaction_end(ok)
    \/ transaction_abandon
    \/ \E name \in {"commit", "rollback"} : Transaction_finish(name)
    \/ finish_poll
    \/ \E ok \in BOOLEAN : finish_end(ok)
    \/ finish_abandon
    \/ Transaction_drop

SpecTransaction == InitTransaction /\ [][NextTransaction]_vars

C37_Opens(i) == written[i].a[1] \in {"BEGIN", "SAVEPOINT sp"}

C37_Ends(i) ==
    written[i].a[1] \in {"COMMIT", "ROLLBACK", "RELEASE sp", "ROLLBACK TO sp"}

\* A handle stands on the statement that opened it, which succeeded and
\* names its depth; every terminating statement was sent for a handle so
\* opened and names the savepoint that handle was opened with, or none when
\* the handle was opened by BEGIN; nothing is sent for an opening statement
\* that did not succeed.
C37_SavepointState ==
    /\ \A j \in DOMAIN trans :
         /\ trans[j].id \in DOMAIN written
         /\ written[trans[j].id].end = "Ok"
         /\ written[trans[j].id].a =
               IF trans[j].depth = 0 THEN <<"BEGIN">>
                                     ELSE savepoint_query(trans[j].depth)
         /\ trans[j].depth = j - 1
    /\ \A i \in DOMAIN written :
         C37_Ends(i) =>
           /\ written[i].by < i
           /\ C37_Opens(written[i].by)
           /\ written[written[i].by].end = "Ok"
           /\ Tail(written[i].a) = Tail(written[written[i].by].a)
           /\ written[i].a[1] \in {"RELEASE sp", "ROLLBACK TO sp"}
                <=> written[written[i].by].a[1] = "SAVEPOINT sp"
    /\ \A i \in DOMAIN written :
         (C37_Opens(i) /\ written[i].end \in {"Err", "abandoned"}) =>
           /\ \A j \in DOMAIN trans : trans[j].id # i
           /\ \A k \in DOMAIN written : k # i => written[k].by # i

\* A handle appears only when the awaited BEGIN / SAVEPOINT is answered Ok,
\* one level below the innermost; commit sends COMMIT or RELEASE, rollback
\* and drop send ROLLBACK or ROLLBACK TO.
C37_SavepointStep ==
    /\ Len(trans') > Len(trans) =>
          /\ pc = "task_transaction"
          /\ res' = "Ok"
          /\ Len(trans') = Len(trans) + 1
          /\ written'[Len(written)].end = "Ok"
          /\ trans'[Len(trans')].id = Len(written)
    /\ (pc = "task_transaction" /\ res' = "Err") => trans' = trans
    /\ \A i \in DOMAIN written' :
         (i > Len(written) /\ written'[i].a[1] \in {"COMMIT", "RELEASE sp"}) =>
            /\ pc = "task_commit"
            /\ written'[i].by = trans[Len(trans)].id
    /\ \A i \in DOMAIN written' :
         (i > Len(written) /\ written'[i].a[1] \in {"ROLLBACK", "ROLLBACK TO sp"}) =>
            /\ pc \in {"task_rollback", "task", "task_commit"}
            /\ written'[i].by = trans[Len(trans)].id

\* C37: in the async Transaction savepoint names are consistent across a
\* handle's lifetime: a handle of depth d > 0 exists only after SAVEPOINT
\* sp{d} succeeded, its commit issues RELEASE sp{d} and its rollback or drop
\* issues ROLLBACK TO sp{d} with the same d, while a depth-0 handle issues
\* COMMIT or ROLLBACK; if the SAVEPOINT statement fails no nested handle is
\* created and no statement is sent for it later.
C37_SavepointNames == [](C37_SavepointState) /\ [][C37_SavepointStep]_vars

\* The handle of depth 2 was committed and the handle of depth 1 was then
\* dropped.
C37_Witness ==
    /\ pc = "task"
    /\ \E i, j \in DOMAIN written :
         /\ i < j
         /\ written[i].a = <<"RELEASE sp", "2">>
         /\ written[i].end = "Ok"
         /\ written[j].a = <<"ROLLBACK TO sp", "1">>
         /\ written[j].end = "unawaited"

\* A SAVEPOINT failed and the handle it was asked of was committed later.
C37_WitnessFailed ==
    /\ pc = "task"
    /\ \E i, j \in DOMAIN written :
         /\ i < j
         /\ written[i].a = <<"SAVEPOINT sp", "1">>
         /\ written[i].end = "Err"
         /\ written[j].a = <<"COMMIT">>

----------------------------------------------------------------------------
(* Both transaction handles: the blocking PostgresTransaction and the      *)
(* asynchronous Transaction, each on a session of its own.                 *)

InitHandles ==
    \/ InitTxn
    \/ InitTransaction

NextHandles ==
    \/ Client
    \/ NextTransaction

SpecHandles == InitHandles /\ [][NextHandles]_vars

\* The run is one of the asynchronous Transaction.
C38_Async == pc \in TransactionLabels

\* The terminating statements among the frames a blocking operation wrote.
C38_Terminating ==
    {i \in DOMAIN written :
       /\ written[i].k = "Query"
       /\ written[i].a \in {<<"COMMIT">>, <<"ROLLBACK">>,
                            <<"RELEASE", "sp">>, <<"ROLLBACK TO", "sp">>}}

C38_Rollbacks ==
    {i \in C38_Terminating : written[i].a \in {<<"ROLLBACK">>, <<"ROLLBACK TO", "sp">>}}

\* The terminating statements sent for the asynchronous handle opened by
\* request id.
C38_TerminatingBy(id) ==
    {i \in DOMAIN written : C37_Ends(i) /\ written[i].by = id}

\* The asynchronous handles that are gone.
C38_Gone ==
    {i \in DOMAIN written :
       /\ C37_Opens(i)
       /\ written[i].end = "Ok"
       /\ \A j \in DOMAIN trans : trans[j].id # i}

\* Blocking: only finish, commit and drop, each of which consumes one
\* handle, write a terminating statement, and at most one.
C38_SyncAtMostOne ==
    /\ Cardinality(C38_Terminating) <= 1
    /\ C38_Terminating # {} => op.name \in C7_FinishOps

\* Asynchronous: at most one terminating statement for a handle, exactly
\* one for a handle that is gone.
C38_AsyncAtMostOne ==
    /\ \A i \in DOMAIN written : Cardinality(C38_TerminatingBy(i)) <= 1
    /\ \A i \in C38_Gone : Cardinality(C38_TerminatingBy(i)) = 1

\* The claim as stated, its state part: a blocking handle that was dropped
\* sent exactly one rollback statement.
C38_StateAsStated ==
    IF C38_Async THEN C38_AsyncAtMostOne
    ELSE /\ C38_SyncAtMostOne
         /\ (pc = "return" /\ op.name = "drop") =>
               /\ Cardinality(C38_Terminating) = 1
               /\ C38_Rollbacks = C38_Terminating

\* The step of an asynchronous drop: exactly one rollback statement, whose
\* answer nobody awaits.
C38_DropSendsRollback(self) ==
    /\ Len(written') = Len(written) + 1
    /\ written'[Len(written')] =
          Request(rollback_query(self.depth), self.id, "unawaited")
    /\ pc' = "task"

\* The claim as stated, its step part: once commit or rollback has been
\* called the handle's drop sends nothing; a handle dropped without them
\* sends one rollback statement and goes on.
C38_StepAsStated ==
    C38_Async =>
      /\ (pc \in {"task_commit", "task_rollback", "task_finish"}
          /\ Len(trans') < Len(trans)) => Len(written') = Len(written)
      /\ (pc = "task" /\ Len(trans') < Len(trans)) =>
            C38_DropSendsRollback(trans[Len(trans)])

C38_OneTerminatingStatementAsStated ==
    [](C38_StateAsStated) /\ [][C38_StepAsStated]_vars

\* Blocking, as the code has it: a dropped handle made one attempt to send
\* the statement its commit flag selects; nothing was written when the
\* session was desynchronized or the write failed.
C38_State ==
    IF C38_Async THEN C38_AsyncAtMostOne
    ELSE /\ C38_SyncAtMostOne
         /\ (pc = "return" /\ op.name = "drop") =>
               /\ C38_Terminating = {} => res \in {"Desync", "Io"}
               /\ \A i \in C38_Terminating :
                     written[i].a = FinishQuery(cur.commit, cur.depth)
               /\ ~cur.commit => C38_Rollbacks = C38_Terminating

\* Asynchronous, as the code has it: once the future of commit or rollback
\* has been polled the handle's drop sends nothing; before that, and for a
\* handle dropped without them, it sends one rollback statement and goes on.
C38_Step ==
    C38_Async =>
      /\ (pc = "task_finish" /\ Len(trans') < Len(trans)) =>
            Len(written') = Len(written)
      /\ (pc \in {"task", "task_commit", "task_rollback"}
          /\ Len(trans') < Len(trans)) =>
            C38_DropSendsRollback(trans[Len(trans)])

\* C38: each transaction handle sends at most one terminating statement
\* over its lifetime. Once the body of commit, rollback or finish has
\* started to run (asynchronous: the future has been polled), even if it
\* returned an error or was abandoned before completing, dropping the handle
\* sends nothing more. A handle dropped before that makes one attempt to
\* send a terminating statement: the asynchronous handle always a rollback
\* statement (ROLLBACK or ROLLBACK TO) whose response it does not wait for;
\* the blocking handle the statement its commit flag selects, a rollback
\* statement unless set_commit was called, and nothing when the session is
\* desynchronized or the write fails.
C38_OneTerminatingStatement == [](C38_State) /\ [][C38_Step]_vars

\* An asynchronous commit was abandoned while it awaited the answer and the
\* handle's drop sent nothing.
C38_Witness ==
    /\ pc = "task"
    /\ trans = <<>>
    /\ \E i \in DOMAIN written :
         /\ written[i].a = <<"COMMIT">>
         /\ written[i].end = "abandoned"
         /\ i = Len(written)

\* A blocking finish returned an error and nothing followed it.
C38_WitnessFinish ==
    /\ pc = "return"
    /\ op.name = "finish"
    /\ res = "Db"
    /\ Cardinality(C38_Terminating) = 1

\* A blocking handle set to commit was dropped and sent COMMIT.
C38_WitnessDropCommits ==
    /\ pc = "return"
    /\ op.name = "drop"
    /\ \E i \in C38_Terminating : written[i].a = <<"COMMIT">>

----------------------------------------------------------------------------
(* tokio-postgres: DbError::new, Error::db, Error::code                    *)
(* A field of an ErrorResponse is [type, value]; the values of P, p and L  *)
(* are texts (sequences of characters), the others are taken whole.  A u32 *)
(* is <<high, low>> in limbs of 16 bits.                                   *)

MaxErrorFields == 2   \* SpecDbError: fields of one ErrorResponse beside S, C and M

U32Limb == 65536

\* char::to_digit(10)
to_digit(c) ==
    IF \E i \in DOMAIN DecimalDigits : DecimalDigits[i] = c
      THEN Some((CHOOSE i \in DOMAIN DecimalDigits : DecimalDigits[i] = c) - 1)
      ELSE None

\* The loop of from_str_radix: result.checked_mul(10), then checked_add(digit).
RECURSIVE parse_digits(_, _)
parse_digits(chars, result) ==
    IF chars = <<>> THEN Some(result)
    ELSE IF to_digit(Head(chars)) = None THEN None
    ELSE LET low  == result[2] * 10 + to_digit(Head(chars))[1]
             high == result[1] * 10 + low \div U32Limb
         IN  IF high >= U32Limb THEN None
             ELSE parse_digits(Tail(chars), <<high, low % U32Limb>>)

\* A variant that takes what is not a digit for 0.
parse_u32_lenient(text) ==
    IF text = <<>> THEN None ELSE Some(<<0, 0>>)

\* field.value().parse::<u32>(): an optional '+', then at least one digit,
\* the value within 32 bits.
parse_u32(text) ==
    LET digits == IF text # <<>> /\ Head(text) = "+" THEN Tail(text) ELSE text
    IN  IF digits = <<>> THEN None ELSE parse_digits(digits, <<0, 0>>)

\* Severity::from_str
Severity_from_str(s) ==
    IF s \in {"PANIC", "FATAL", "ERROR", "WARNING", "NOTICE", "DEBUG", "INFO", "LOG"}
      THEN Some(s) ELSE None

\* The fields the backend is taken to send.
ErrorFieldValues ==
    [S |-> {"ERROR"}, C |-> {"42601"}, M |-> {"syntax error"},
     P |-> {<<"7">>, <<"x">>}, p |-> {<<"+", "3">>, <<"4", "2", "9", "4", "9", "6", "7", "2", "9", "6">>},
     q |-> {"SELECT 1"},
     L |-> {<<"4", "2", "9", "4", "9", "6", "7", "2", "9", "5">>, <<"-", "1">>},
     V |-> {"LOG", "TRACE"}, D |-> {"detail"}]

ErrorField ==
    UNION {[type : {t}, value : ErrorFieldValues[t]] : t \in DOMAIN ErrorFieldValues}

\* The locals of DbError::new before the loop.
NoDbError ==
    [severity |-> None, parsed_severity |-> None, code |-> None, message |-> None,
     detail |-> None, normal_position |-> None, internal_position |-> None,
     internal_query |-> None, line |-> None]

\* One turn of the loop of DbError::new: a local is set, or the function
\* returns the error of the conversion.
DbError_field(l, field) ==
    LET t == field.type
        v == field.value
    IN  CASE t = "S" -> Some([l EXCEPT !.severity = Some(v)])
          [] t = "C" -> Some([l EXCEPT !.code = Some(v)])
          [] t = "M" -> Some([l EXCEPT !.message = Some(v)])
          [] t = "D" -> Some([l EXCEPT !.detail = Some(v)])
          [] t = "P" -> IF parse_u32(v) = None THEN None
                        ELSE Some([l EXCEPT !.normal_position = parse_u32(v)])
          [] t = "p" -> IF parse_u32(v) = None THEN None
                        ELSE Some([l EXCEPT !.internal_position = parse_u32(v)])
          [] t = "q" -> Some([l EXCEPT !.internal_query = Some(v)])
          [] t = "L" -> IF parse_u32(v) = None THEN None
                        ELSE Some([l EXCEPT !.line = parse_u32(v)])
          [] t = "V" -> IF Severity_from_str(v) = None THEN None
                        ELSE Some([l EXCEPT !.parsed_severity = Severity_from_str(v)])
          [] OTHER   -> Some(l)

\* while let Some(field) = fields.next()? { .. }
RECURSIVE DbError_loop(_, _)
DbError_loop(fields, l) ==
    IF fields = <<>> THEN Some(l)
    ELSE LET n == DbError_field(l, Head(fields))
         IN  IF n = None THEN None ELSE DbError_loop(Tail(fields), n[1])

\* DbError::new: the loop, then the struct; None stands for Err(io::Error).
DbError_new(fields) ==
    LET r == DbError_loop(fields, NoDbError) IN
    IF r = None THEN None
    ELSE LET l == r[1] IN
         IF l.severity = None \/ l.code = None \/ l.message = None THEN None
         ELSE IF l.normal_position # None
           THEN Some([severity |-> l.severity[1], parsed_severity |-> l.parsed_severity,
                      code |-> l.code[1], message |-> l.message[1], line |-> l.line,
                      position |-> Some([original |-> l.normal_position[1]])])
         ELSE IF l.internal_position # None
           THEN IF l.internal_query = None THEN None
                ELSE Some([severity |-> l.severity[1],
                           parsed_severity |-> l.parsed_severity,
                           code |-> l.code[1], message |-> l.message[1], line |-> l.line,
                           position |-> Some([position |-> l.internal_position[1],
                                              query |-> l.internal_query[1]])])
         ELSE Some([severity |-> l.severity[1], parsed_severity |-> l.parsed_severity,
                    code |-> l.code[1], message |-> l.message[1], line |-> l.line,
                    position |-> None])

\* Error::db
Error_db(fields) ==
    IF DbError_new(fields) # None
      THEN [kind |-> "Db", cause |-> <<"DbError", DbError_new(fields)[1]>>]
      ELSE [kind |-> "Parse", cause |-> <<"io::Error">>]

\* Error::closed
Error_closed == [kind |-> "Closed", cause |-> <<>>]

\* Error::code: the cause downcast to DbError, then its code.
Error_code(error) ==
    IF error.cause # <<>> /\ error.cause[1] = "DbError"
      THEN Some(error.cause[2].code) ELSE None

\* The fields of the given types among fields.
FieldsOf(fields, types) == {i \in DOMAIN fields : fields[i].type \in types}

\* The backend's ErrorResponse gets one more field: S, C and M at most once
\* each, the others in any number up to the bound, all in any order.
ErrorFields_push ==
    /\ pc = "unconnected"
    /\ cur.data = <<>>
    /\ \E field \in ErrorField :
         /\ IF field.type \in {"S", "C", "M"}
              THEN FieldsOf(cur.input, {field.type}) = {}
              ELSE Cardinality(FieldsOf(cur.input, DOMAIN ErrorFieldValues \ {"S", "C", "M"}))
                     < MaxErrorFields
         /\ cur' = [cur EXCEPT !.input = Append(@, field)]
    /\ UNCHANGED <<pc, kont, res, op, written, sessVars, hndVars, netVars, envVars>>

\* The ErrorResponse is turned into an Error and the caller asks its code.
ErrorResponse_db ==
    /\ pc = "unconnected"
    /\ cur.data = <<>>
    /\ LET error == Error_db(cur.input)
       IN  cur' = [cur EXCEPT !.data = <<error>>, !.tag = Error_code(error)]
    /\ res' = "db"
    /\ UNCHANGED <<pc, kont, op, written, sessVars, hndVars, netVars, envVars>>

\* The connection is found closed instead.
Connection_closed ==
    /\ pc = "unconnected"
    /\ cur.data = <<>>
    /\ cur' = [cur EXCEPT !.data = <<Error_closed>>, !.tag = Error_code(Error_closed)]
    /\ res' = "closed"
    /\ UNCHANGED <<pc, kont, op, written, sessVars, hndVars, netVars, envVars>>

NextDbError ==
    \/ ErrorFields_push
    \/ ErrorResponse_db
    \/ Connection_closed

SpecDbError == InitFrames /\ [][NextDbError]_vars

C39_Has(t) == FieldsOf(cur.input, {t}) # {}

\* The value of the last field of type t.
C39_Last(t) ==
    cur.input[CHOOSE i \in FieldsOf(cur.input, {t}) :
                 \A j \in FieldsOf(cur.input, {t}) : j <= i].value

C39_DigitOf(c) == CHOOSE i \in DOMAIN DecimalDigits : DecimalDigits[i] = c

\* a is below or equal to b, both digit texts of one length.
C39_AtMost(a, b) ==
    \/ a = b
    \/ \E i \in DOMAIN a :
         /\ \A j \in 1..(i - 1) : a[j] = b[j]
         /\ C39_DigitOf(a[i]) < C39_DigitOf(b[i])

\* The text is an unsigned integer of 32 bits: an optional '+', one digit
\* or more, and beyond the leading zeros at most 4294967295.
C39_Unsigned(text) ==
    LET body  == IF text # <<>> /\ text[1] = "+" THEN Tail(text) ELSE text
        zeros == Cardinality({i \in DOMAIN body : \A j \in 1..i : body[j] = "0"})
        digits == SubSeq(body, zeros + 1, Len(body))
    IN  /\ body # <<>>
        /\ \A i \in DOMAIN body : \E d \in DOMAIN DecimalDigits : DecimalDigits[d] = body[i]
        /\ \/ Len(digits) < 10
           \/ /\ Len(digits) = 10
              /\ C39_AtMost(digits, <<"4", "2", "9", "4", "9", "6", "7", "2", "9", "5">>)

\* The condition the claim gives for success.
C39_WellFormed ==
    /\ C39_Has("S") /\ C39_Has("C") /\ C39_Has("M")
    /\ \A i \in FieldsOf(cur.input, {"P", "p", "L"}) : C39_Unsigned(cur.input[i].value)
    /\ \A i \in FieldsOf(cur.input, {"V"}) :
         cur.input[i].value \in {"PANIC", "FATAL", "ERROR", "WARNING", "NOTICE",
                                 "DEBUG", "INFO", "LOG"}
    /\ (C39_Has("p") /\ ~C39_Has("P")) => C39_Has("q")

C39_Position(e) ==
    IF C39_Has("P") THEN e.position = Some([original |-> parse_u32(C39_Last("P"))[1]])
    ELSE IF C39_Has("p")
      THEN e.position = Some([position |-> parse_u32(C39_Last("p"))[1],
                              query |-> C39_Last("q")])
    ELSE e.position = None

\* C39: building a DbError from ErrorResponse fields succeeds exactly when
\* the S, C and M fields are all present, every P, p and L field present is
\* an unsigned integer, every V field present is one of the eight known
\* severities, and a p field without a P field is accompanied by a q field;
\* when it fails Error::db yields an error of kind Parse instead of Db. On
\* success the position is Original(P) whenever P is present, otherwise
\* Internal{p, q}, otherwise none, and Error::code() returns the SQLSTATE
\* exactly when the cause is a DbError.
C39_DbErrorFromFields ==
    cur.data # <<>> =>
      LET error == cur.data[1] IN
      /\ res = "db" =>
           /\ error.kind = IF C39_WellFormed THEN "Db" ELSE "Parse"
           /\ (error.kind = "Db") <=> (error.cause[1] = "DbError")
           /\ error.kind = "Db" => C39_Position(error.cause[2])
      /\ cur.tag # None <=> (error.cause # <<>> /\ error.cause[1] = "DbError")
      /\ cur.tag # None => cur.tag = Some(C39_Last("C"))

\* A DbError with P and p present: the position is the original one.
C39_Witness ==
    /\ res = "db"
    /\ cur.data[1].kind = "Db"
    /\ C39_Has("P")
    /\ C39_Has("p")
    /\ cur.data[1].cause[2].position = Some([original |-> <<0, 7>>])
    /\ cur.tag = Some("42601")

\* A DbError with the internal position and its query.
C39_WitnessInternal ==
    /\ res = "db"
    /\ cur.data[1].kind = "Db"
    /\ cur.data[1].cause[2].position = Some([position |-> <<0, 3>>, query |-> "SELECT 1"])

\* S, C and M are there and the p field has no q: kind Parse, no code.
C39_WitnessParse ==
    /\ res = "db"
    /\ C39_Has("S") /\ C39_Has("C") /\ C39_Has("M")
    /\ C39_Has("p") /\ C39_Unsigned(C39_Last("p"))
    /\ cur.data[1].kind = "Parse"
    /\ cur.tag = None

\* The largest line number is accepted.
C39_WitnessLine ==
    /\ res = "db"
    /\ cur.data[1].kind = "Db"
    /\ cur.data[1].cause[2].line = Some(<<65535, 65535>>)

----------------------------------------------------------------------------
(* postgres-protocol: write_nullable                                       *)
(* A buffer is its bytes followed by fill more bytes that are not written  *)
(* out one by one; fill and every usize are <<high, low>> in limbs of 16   *)
(* bits.  The buffer the next call works on is cur.buf with cur.row bytes   *)
(* of fill after it.                                                       *)

MaxValues == 3   \* SpecNullable: calls of write_nullable on one buffer

\* i32::MAX as usize
I32_MAX == <<32767, 65535>>

usize_add(x, n) == <<x[1] + (x[2] + n) \div U32Limb, (x[2] + n) % U32Limb>>

\* x - n for n <= x
usize_sub(x, n) ==
    IF x[2] >= n THEN <<x[1], x[2] - n>> ELSE <<x[1] - 1, x[2] + U32Limb - n>>

usize_gt(x, y) == x[1] > y[1] \/ (x[1] = y[1] /\ x[2] > y[2])

\* buf.len()
BytesMut_len(buf) == usize_add(buf.fill, Len(buf.bytes))

\* What the serializers do: the bytes they append, and what they report.
\* One that reports NULL appends nothing; one that fails may have written.
Serializers ==
    [result : {"No"}, out : {<<>>, <<9>>, <<9, 10>>}, fill : {<<0, 0>>}]
      \cup [result : {"No"}, out : {<<>>, <<9>>},
            fill : {<<32767, 65534>>, <<32767, 65535>>, <<32768, 0>>}]
      \cup [result : {"Yes"}, out : {<<>>}, fill : {<<0, 0>>}]
      \cup [result : {"Err"}, out : {<<>>, <<9>>}, fill : {<<0, 0>>}]

\* A conversion that stops at the largest value instead of failing.
from_usize_saturating(x) ==
    IF usize_gt(x, I32_MAX)
      THEN Some(I32_MAX[1] * U32Limb + I32_MAX[2])
      ELSE Some(x[1] * U32Limb + x[2])

\* i32::from_usize: None stands for Err("value too large to transmit").
from_usize(x) ==
    IF usize_gt(x, I32_MAX) THEN None ELSE Some(x[1] * U32Limb + x[2])

\* BigEndian::write_i32(&mut buf[base..], size), base within the bytes.
BigEndian_write_i32(bytes, base, size) ==
    [i \in DOMAIN bytes |->
       IF i > base /\ i <= base + 4 THEN write_be_i32(size)[i - base] ELSE bytes[i]]

\* write_nullable(serializer, buf) on a buffer without fill: the result and
\* the buffer it leaves.
write_nullable(serializer, bytes) ==
    LET base == Len(bytes)
        buf  == [bytes |-> bytes \o <<0, 0, 0, 0>> \o serializer.out,
                 fill |-> serializer.fill]
        size == IF serializer.result = "Yes" THEN Some(-1)
                ELSE from_usize(usize_sub(usize_sub(BytesMut_len(buf), base), 4))
    IN  IF serializer.result = "Err" THEN [end |-> "Err", buf |-> buf]
        ELSE IF size = None THEN [end |-> "value too large to transmit", buf |-> buf]
        ELSE [end |-> "Ok",
              buf |-> [buf EXCEPT !.bytes = BigEndian_write_i32(@, base, size[1])]]

\* One value is written to the buffer.
Value_write_nullable ==
    /\ pc = "unconnected"
    /\ cur.n < MaxValues
    /\ cur.row \in {<<>>, <<0, 0>>}
    /\ \E serializer \in Serializers :
         LET r == write_nullable(serializer, cur.buf)
         IN  /\ cur' = [cur EXCEPT !.input = cur.buf, !.data = <<serializer>>,
                                   !.buf = r.buf.bytes, !.row = r.buf.fill,
                                   !.n = @ + 1]
             /\ res' = r.end
    /\ UNCHANGED <<pc, kont, op, written, sessVars, hndVars, netVars, envVars>>

SpecNullable == InitFrames /\ [][Value_write_nullable]_vars

\* The length of what the serializer appended is above i32::MAX.
C40_TooLarge(s) ==
    \/ s.fill[1] >= 32768
    \/ s.fill[1] = 32767 /\ s.fill[2] + Len(s.out) > 65535

C40_WitnessNull ==
    /\ res = "Ok"
    /\ cur.input # <<>>
    /\ cur.data[1].result = "Yes"

\* A value of i32::MAX + 1 bytes was refused.
C40_WitnessTooLarge ==
    /\ res = "value too large to transmit"
    /\ cur.row = <<32768, 0>>
    /\ cur.data[1].out = <<>>

====
